---- MODULE Spec2Model ----
(***************************************************************************)
(* Ouroboros - Ring of Eternity: the simulation core as a state machine.   *)
(*                                                                         *)
(* The program state is the Game object (src/src/core/game.py) with the    *)
(* World, the Screens, the Player and the entities it owns.  It is held    *)
(* in the record variable `game`; the handlers (Game.update, the SPACE     *)
(* key, Game._handle_combat, ...) are operators from a game record to a    *)
(* game record, translated statement by statement, and the actions apply   *)
(* them.                                                                   *)
(*                                                                         *)
(* Float positions (enemies, projectiles, cat) are kept in fixed point:    *)
(* an integer number of 1/SUB pixels.  Player, item and interactable       *)
(* positions are integers in the program and integers (pixels) here.       *)
(***************************************************************************)
EXTENDS Integers, Sequences, FiniteSets, TLC

VARIABLES
    game,   \* the Game object: state machine, world, player, entities
    last,   \* the operation performed by the last step, with its inputs
    ticks   \* number of calls of Game.update so far (bounds the run)

vars == <<game, last, ticks>>

None == "None"

(***************************************************************************)
(* src/src/core/constants.py                                               *)
(***************************************************************************)
NATIVE_WIDTH == 160
NATIVE_HEIGHT == 192
TILE_SIZE == 16
PLAYER_SIZE == 16
PLAYER_SPEED == 2

\* Sub-pixel resolution of the fixed-point positions (units per pixel).
SUB == 4

Abs(n) == IF n < 0 THEN -n ELSE n
Max(a, b) == IF a > b THEN a ELSE b
Min(a, b) == IF a < b THEN a ELSE b

(***************************************************************************)
(* src/src/world/screen.py: ScreenID, Direction                            *)
(***************************************************************************)
ScreenID == {"TOWER_HUB", "FINAL_CHAMBER",
             "GARDENS_1", "GARDENS_2", "GARDENS_3", "GARDENS_4",
             "CATACOMBS_1", "CATACOMBS_2", "CATACOMBS_3", "CATACOMBS_4",
             "RUINS_1", "RUINS_2", "RUINS_3", "RUINS_4",
             "CLIFFS_1", "CLIFFS_2", "CLIFFS_3", "CLIFFS_4"}

Direction == {"NORTH", "SOUTH", "EAST", "WEST"}

\* Screen._init_tiles: 12 rows, 10 columns
Rows == NATIVE_HEIGHT \div TILE_SIZE
Cols == NATIVE_WIDTH \div TILE_SIZE

\* Screen._init_tiles: the border tiles are solid, the rest passable.
\* A tile is <<column, row>>.
BorderTiles ==
    {<<c, r>> \in (0 .. Cols - 1) \X (0 .. Rows - 1) :
        c = 0 \/ c = Cols - 1 \/ r = 0 \/ r = Rows - 1}

\* World._add_room_layouts: the tiles set solid in each room.
Block2(px, py) == {<<px, py>>, <<px + 1, py>>, <<px, py + 1>>, <<px + 1, py + 1>>}
ColRun(x, y0, y1) == {<<x, y>> : y \in y0 .. y1}
RowRun(x0, x1, y) == {<<x, y>> : x \in x0 .. x1}

RoomLayout(s) ==
    CASE s = "TOWER_HUB"   -> Block2(1, 1) \cup Block2(7, 1) \cup Block2(1, 9) \cup Block2(7, 9)
      [] s = "GARDENS_1"   -> ColRun(2, 2, 4) \cup ColRun(7, 2, 4)
      [] s = "GARDENS_2"   -> {<<3, 4>>, <<6, 7>>, <<4, 9>>}
      [] s = "GARDENS_3"   -> RowRun(2, 4, 3) \cup ColRun(4, 3, 6)
      [] s = "GARDENS_4"   -> ColRun(3, 1, 5) \cup ColRun(6, 7, 10)
      [] s = "CATACOMBS_1" -> ColRun(3, 1, 7) \cup ColRun(6, 1, 7)
      [] s = "CATACOMBS_2" -> {<<3, 4>>, <<6, 4>>, <<3, 8>>, <<6, 8>>}
      [] s = "CATACOMBS_3" -> RowRun(1, 2, 4) \cup RowRun(1, 2, 8) \cup
                              RowRun(7, 8, 4) \cup RowRun(7, 8, 8)
      [] s = "CATACOMBS_4" -> {<<2, 3>>, <<7, 3>>, <<2, 9>>, <<7, 9>>}
      [] s = "RUINS_1"     -> RowRun(2, 3, 5) \cup RowRun(6, 7, 7)
      [] s = "RUINS_2"     -> ColRun(3, 2, 6) \cup RowRun(5, 7, 5) \cup {<<5, 8>>, <<5, 9>>}
      [] s = "RUINS_3"     -> RowRun(2, 3, 3) \cup RowRun(6, 7, 3)
      [] s = "RUINS_4"     -> RowRun(4, 6, 4) \cup RowRun(4, 6, 9)
      [] s = "CLIFFS_1"    -> {<<2, 4>>, <<7, 6>>, <<4, 9>>}
      [] s = "CLIFFS_2"    -> RowRun(2, 3, 3) \cup RowRun(6, 7, 8)
      [] s = "CLIFFS_3"    -> {<<2, 8>>, <<3, 6>>, <<5, 4>>, <<7, 2>>}
      [] s = "CLIFFS_4"    -> ColRun(2, 3, 5) \cup ColRun(7, 3, 5)
      [] s = "FINAL_CHAMBER" -> {<<2, 2>>, <<7, 2>>, <<2, 9>>, <<7, 9>>}

\* Screen.tiles after World.__init__: tiles[s][row][col]; nothing changes a
\* tile after construction (set_tile_solid is called by _add_room_layouts only).
tiles ==
    [s \in ScreenID |->
        [r \in 0 .. Rows - 1 |->
            [c \in 0 .. Cols - 1 |->
                <<c, r>> \in BorderTiles \/ <<c, r>> \in RoomLayout(s)]]]

\* Screen.is_tile_solid(x, y) mutated: the lower bounds of the range check are
\* dropped, so a negative index reads the list from its end, as Python does.
is_tile_solid_no_lower_bound(s, x, y) ==
    LET tile_x == x \div TILE_SIZE
        tile_y == y \div TILE_SIZE
    IN  IF tile_y < Rows /\ tile_x < Cols
        THEN tiles[s][tile_y % Rows][tile_x % Cols]
        ELSE TRUE

\* Screen.is_tile_solid(x, y): x, y in pixels; `//` is the floor division.
is_tile_solid(s, x, y) ==
    LET tile_x == x \div TILE_SIZE
        tile_y == y \div TILE_SIZE
    IN  IF 0 <= tile_y /\ tile_y < Rows /\ 0 <= tile_x /\ tile_x < Cols
        THEN tiles[s][tile_y][tile_x]
        ELSE TRUE

\* World._connect_screens: connections[s][d], None where unconnected.
Link(n, s, e, w) == [NORTH |-> n, SOUTH |-> s, EAST |-> e, WEST |-> w]

connections ==
    [s \in ScreenID |->
        CASE s = "TOWER_HUB"   -> Link("GARDENS_1", "RUINS_1", "CATACOMBS_1", "CLIFFS_1")
          [] s = "GARDENS_1"   -> Link("GARDENS_2", "TOWER_HUB", None, None)
          [] s = "GARDENS_2"   -> Link(None, "GARDENS_1", None, "GARDENS_3")
          [] s = "GARDENS_3"   -> Link("GARDENS_4", None, "GARDENS_2", None)
          [] s = "GARDENS_4"   -> Link(None, "GARDENS_3", None, None)
          [] s = "CATACOMBS_1" -> Link(None, None, "CATACOMBS_2", "TOWER_HUB")
          [] s = "CATACOMBS_2" -> Link("CATACOMBS_3", None, None, "CATACOMBS_1")
          [] s = "CATACOMBS_3" -> Link(None, "CATACOMBS_2", "CATACOMBS_4", None)
          [] s = "CATACOMBS_4" -> Link(None, None, None, "CATACOMBS_3")
          [] s = "RUINS_1"     -> Link("TOWER_HUB", "RUINS_2", None, None)
          [] s = "RUINS_2"     -> Link("RUINS_1", None, "RUINS_3", None)
          [] s = "RUINS_3"     -> Link(None, "RUINS_4", None, "RUINS_2")
          [] s = "RUINS_4"     -> Link("RUINS_3", None, None, None)
          [] s = "CLIFFS_1"    -> Link(None, None, "TOWER_HUB", "CLIFFS_2")
          [] s = "CLIFFS_2"    -> Link(None, "CLIFFS_3", "CLIFFS_1", None)
          [] s = "CLIFFS_3"    -> Link("CLIFFS_2", None, None, "CLIFFS_4")
          [] s = "CLIFFS_4"    -> Link(None, None, "CLIFFS_3", None)
          [] s = "FINAL_CHAMBER" -> Link(None, None, None, None)]

\* Screen.get_connection
get_connection(s, d) == connections[s][d]

(***************************************************************************)
(* Entities.  Every object the program creates has a name here; a screen's *)
(* entity list is a sequence of names, in the order of the Python list.    *)
(***************************************************************************)

\* src/src/entities/item.py: ItemType
ItemType == {"GOLD_KEY", "SILVER_KEY", "GREEN_CRYSTAL", "RED_CRYSTAL", "BLUE_CRYSTAL",
             "YELLOW_CRYSTAL", "ACORN", "WATERING_CAN", "WATERING_CAN_FULL", "BOMB",
             "CHALICE", "CHALICE_FILLED", "FLUTE", "SWORD", "FISH", "RING_OF_ETERNITY"}

CrystalTypes == {"GREEN_CRYSTAL", "RED_CRYSTAL", "BLUE_CRYSTAL", "YELLOW_CRYSTAL"}

\* Item.pickup_range and Interactable.interaction_range
PICKUP_RANGE == 20
INTERACTION_RANGE == 24

\* create_item(item_type, x, y): size 12 for the ring, 8 otherwise
create_item(t, x, y) ==
    [item_type |-> t, x |-> x, y |-> y,
     size |-> IF t = "RING_OF_ETERNITY" THEN 12 ELSE 8, active |-> TRUE]

\* The items of Game._spawn_test_items and Game._spawn_npcs (the fish), the
\* bomb respawned by a bomb placement ("bomb2") and the ring the boss leaves.
SpawnedItems ==
    [gold_key       |-> create_item("GOLD_KEY", 40, 40),
     sword          |-> create_item("SWORD", 120, 40),
     acorn          |-> create_item("ACORN", 60, 60),
     green_crystal  |-> create_item("GREEN_CRYSTAL", 80, 96),
     bomb           |-> create_item("BOMB", 50, 80),
     red_crystal    |-> create_item("RED_CRYSTAL", 80, 96),
     chalice        |-> create_item("CHALICE", 70, 70),
     blue_crystal   |-> create_item("BLUE_CRYSTAL", 80, 96),
     flute          |-> create_item("FLUTE", 65, 75),
     yellow_crystal |-> create_item("YELLOW_CRYSTAL", 80, 96),
     silver_key     |-> create_item("SILVER_KEY", 80, 60),
     fish           |-> create_item("FISH", 30, 40),
     bomb2          |-> create_item("BOMB", 50, 80),
     ring           |-> create_item("RING_OF_ETERNITY",
                                    NATIVE_WIDTH \div 2 - 6, NATIVE_HEIGHT \div 2 - 6)]

ItemIds == DOMAIN SpawnedItems

\* src/src/entities/interactable.py: the interactables of
\* Game._setup_interactables with the fields their constructors set.
\* kind is the subclass; solid/deadly are the constructor's values.
Interactable(kind, x, y, w, h, requires, solid, deadly) ==
    [kind |-> kind, x |-> x, y |-> y, width |-> w, height |-> h,
     requires_item |-> requires, solid |-> solid, active |-> TRUE,
     is_activated |-> FALSE, has_crystal |-> FALSE, has_acorn |-> FALSE,
     deadly |-> deadly]

SetupInteractables ==
    [pedestal_green  |-> Interactable("Pedestal", 24, 24, 16, 16, "GREEN_CRYSTAL", FALSE, FALSE),
     pedestal_red    |-> Interactable("Pedestal", 120, 24, 16, 16, "RED_CRYSTAL", FALSE, FALSE),
     pedestal_blue   |-> Interactable("Pedestal", 24, 152, 16, 16, "BLUE_CRYSTAL", FALSE, FALSE),
     pedestal_yellow |-> Interactable("Pedestal", 120, 152, 16, 16, "YELLOW_CRYSTAL", FALSE, FALSE),
     fountain        |-> Interactable("Fountain", 80, 96, 16, 16, "WATERING_CAN", TRUE, FALSE),
     soft_dirt       |-> Interactable("SoftDirt", 48, 80, 16, 16, "ACORN", FALSE, FALSE),
     chasm           |-> Interactable("Chasm", 64, 48, 32, 16, None, TRUE, FALSE),
     gold_gate       |-> Interactable("Gate", 72, 48, 16, 32, "GOLD_KEY", TRUE, FALSE),
     cracked_wall    |-> Interactable("CrackedWall", 80, 64, 16, 16, "BOMB", TRUE, FALSE),
     toxic_basin     |-> Interactable("ToxicBasin", 60, 80, 24, 24, "CHALICE_FILLED", FALSE, TRUE),
     blessed_spring  |-> Interactable("BlessedSpring", 80, 80, 16, 16, "CHALICE", TRUE, FALSE),
     statue          |-> Interactable("SleeplessStatue", 80, 80, 16, 24, "FLUTE", TRUE, FALSE),
     silver_gate     |-> Interactable("Gate", 80, 20, 16, 16, "SILVER_KEY", TRUE, FALSE)]

InterIds == DOMAIN SetupInteractables

\* src/src/entities/enemy.py: the enemies of Game._spawn_enemies.
\* x, y, spawn_x, spawn_y are in 1/SUB pixels.
Crawler(x, y) ==
    [enemy_type |-> "CRAWLER", x |-> x * SUB, y |-> y * SUB,
     spawn_x |-> x * SUB, spawn_y |-> y * SUB, size |-> 16, alive |-> TRUE,
     immune_to_sword |-> FALSE,
     direction_x |-> 0, direction_y |-> 0, move_timer |-> 0, pause_timer |-> 0,
     is_paused |-> FALSE]

Chaser(x, y) ==
    [enemy_type |-> "CHASER", x |-> x * SUB, y |-> y * SUB,
     spawn_x |-> x * SUB, spawn_y |-> y * SUB, size |-> 16, alive |-> TRUE,
     immune_to_sword |-> FALSE,
     is_chasing |-> FALSE, return_timer |-> 0]

Sentinel(x, y, waypoints) ==
    [enemy_type |-> "SENTINEL", x |-> x * SUB, y |-> y * SUB,
     spawn_x |-> x * SUB, spawn_y |-> y * SUB, size |-> 16, alive |-> TRUE,
     immune_to_sword |-> TRUE,
     waypoints |-> IF waypoints = <<>> THEN << <<x, y>> >> ELSE waypoints,
     current_waypoint |-> 0]

SpawnedEnemies ==
    [crawler_g2a  |-> Crawler(40, 60),
     crawler_g2b  |-> Crawler(100, 80),
     crawler_g3   |-> Crawler(80, 40),
     chaser_c2    |-> Chaser(100, 100),
     chaser_c3a   |-> Chaser(60, 80),
     chaser_c3b   |-> Chaser(90, 60),
     crawler_r2   |-> Crawler(50, 100),
     chaser_r2    |-> Chaser(110, 90),
     sentinel_cl2 |-> Sentinel(40, 40, << <<40, 40>>, <<120, 40>>, <<120, 140>>, <<40, 140>> >>),
     sentinel_cl3 |-> Sentinel(60, 60, << <<60, 60>>, <<100, 60>>, <<80, 120>> >>)]

EnemyIds == DOMAIN SpawnedEnemies

\* The boss is Game.boss, the two NPCs are Owl and Cat (Game.cat).
BossId == "void"
NpcIds == {"owl", "cat"}

\* The entity lists after Game.__init__, in the order of the append calls:
\* _spawn_test_items, _setup_interactables, _spawn_enemies, _spawn_npcs,
\* _setup_final_chamber.
InitialEntities ==
    [s \in ScreenID |->
        CASE s = "TOWER_HUB"   -> <<"gold_key", "sword", "pedestal_green", "pedestal_red",
                                    "pedestal_blue", "pedestal_yellow", "fountain",
                                    "silver_gate", "cat">>
          [] s = "GARDENS_2"   -> <<"acorn", "crawler_g2a", "crawler_g2b", "owl">>
          [] s = "GARDENS_3"   -> <<"soft_dirt", "crawler_g3", "fish">>
          [] s = "GARDENS_4"   -> <<"green_crystal", "chasm">>
          [] s = "CATACOMBS_1" -> <<"gold_gate">>
          [] s = "CATACOMBS_2" -> <<"bomb", "chaser_c2">>
          [] s = "CATACOMBS_3" -> <<"silver_key", "chaser_c3a", "chaser_c3b">>
          [] s = "CATACOMBS_4" -> <<"red_crystal", "cracked_wall">>
          [] s = "RUINS_2"     -> <<"chalice", "crawler_r2", "chaser_r2">>
          [] s = "RUINS_3"     -> <<"blue_crystal", "toxic_basin">>
          [] s = "RUINS_4"     -> <<"blessed_spring">>
          [] s = "CLIFFS_2"    -> <<"flute", "sentinel_cl2">>
          [] s = "CLIFFS_3"    -> <<"sentinel_cl3">>
          [] s = "CLIFFS_4"    -> <<"yellow_crystal", "statue">>
          [] s = "FINAL_CHAMBER" -> <<"void">>
          [] OTHER -> <<>>]

\* src/src/core/state_machine.py: GameState
GameState == {"INIT", "EXPLORE", "COLLECTION", "ACTIVATION", "CLIMAX", "WIN", "GAME_OVER"}

\* TheVoid.__init__ with the two random velocity components vx, vy (1/SUB pixels
\* per update)
TheVoid(x, y, vx, vy) ==
    [enemy_type |-> "VOID", x |-> x * SUB, y |-> y * SUB,
     spawn_x |-> x * SUB, spawn_y |-> y * SUB, size |-> 24, alive |-> TRUE,
     immune_to_sword |-> FALSE,
     hits_remaining |-> 3, invulnerable |-> FALSE, invulnerable_timer |-> 0,
     velocity_x |-> vx, velocity_y |-> vy, projectiles |-> <<>>]

\* Cat.__init__: Cat(120, 120), 12x12, not following
NewCat == [x |-> 120 * SUB, y |-> 120 * SUB, width |-> 12, height |-> 12, following |-> FALSE]

\* Player.__init__ at the spawn point of Game.__init__ / _restart_game /
\* _player_death
SpawnX == NATIVE_WIDTH \div 2 - 8
SpawnY == NATIVE_HEIGHT \div 2 - 8

\* Game.__init__: the game after construction; vx, vy are the boss's random
\* initial velocity.
NewGame(vx, vy) ==
    [state |-> "INIT", previous_state |-> None,
     crystals_placed |-> [c \in CrystalTypes |-> FALSE],
     all_crystals_placed |-> FALSE,
     boss_defeated |-> FALSE,
     victory_timer |-> 0,
     current_screen_id |-> "TOWER_HUB",
     entities |-> InitialEntities,
     px |-> SpawnX, py |-> SpawnY, held_item |-> None,
     item |-> SpawnedItems,
     inter |-> SetupInteractables,
     enemy |-> SpawnedEnemies,
     boss |-> TheVoid(80, 96, vx, vy),
     cat |-> NewCat,
     events |-> {}]

\* StateMachine.change_state
change_state(g, new_state) ==
    IF new_state # g.state
    THEN [g EXCEPT !.previous_state = g.state, !.state = new_state]
    ELSE g

(***************************************************************************)
(* Geometry                                                                *)
(***************************************************************************)

\* pygame.Rect.colliderect for two rectangles of positive size
colliderect(x1, y1, w1, h1, x2, y2, w2, h2) ==
    x1 < x2 + w2 /\ x2 < x1 + w1 /\ y1 < y2 + h2 /\ y2 < y1 + h1

\* pygame.Rect(x, y, ..) of a float position: the integer part (positions
\* of enemies are not negative)
Px(u) == u \div SUB

\* Item.is_near_player: distance between the centres <= pickup_range.
\* All sizes are even, so the centres are integers.
item_is_near_player(it, px, py) ==
    LET dx == (it.x + it.size \div 2) - (px + PLAYER_SIZE \div 2)
        dy == (it.y + it.size \div 2) - (py + PLAYER_SIZE \div 2)
    IN  dx * dx + dy * dy <= PICKUP_RANGE * PICKUP_RANGE

\* Interactable.is_near_player: distance between the centres <= interaction_range
inter_is_near_player(o, px, py) ==
    LET dx == (o.x + o.width \div 2) - (px + PLAYER_SIZE \div 2)
        dy == (o.y + o.height \div 2) - (py + PLAYER_SIZE \div 2)
    IN  dx * dx + dy * dy <= INTERACTION_RANGE * INTERACTION_RANGE

(***************************************************************************)
(* src/src/entities/player.py                                              *)
(***************************************************************************)

\* Player.update mutated: each axis is taken back on its own, so the player
\* slides along a wall.
player_update_sliding(g, vx, vy) ==
    LET s == g.current_screen_id
        hits(x, y) ==
            \/ \E c \in {<<x, y>>, <<x + PLAYER_SIZE - 1, y>>,
                         <<x, y + PLAYER_SIZE - 1>>,
                         <<x + PLAYER_SIZE - 1, y + PLAYER_SIZE - 1>>} :
                  is_tile_solid(s, c[1], c[2])
            \/ \E i \in 1 .. Len(g.entities[s]) :
                  LET e == g.entities[s][i]
                  IN  /\ e \in InterIds
                      /\ g.inter[e].solid
                      /\ g.inter[e].active
                      /\ colliderect(x, y, PLAYER_SIZE, PLAYER_SIZE,
                                     g.inter[e].x, g.inter[e].y,
                                     g.inter[e].width, g.inter[e].height)
        x3 == IF hits(g.px + vx, g.py) THEN g.px ELSE g.px + vx
        y3 == IF hits(x3, g.py + vy) THEN g.py ELSE g.py + vy
    IN  [g EXCEPT !.px = Max(-PLAYER_SIZE, Min(x3, NATIVE_WIDTH)),
                  !.py = Max(-PLAYER_SIZE, Min(y3, NATIVE_HEIGHT))]

\* Player.update(current_screen) with the velocity handle_input set from the
\* keys: move, revert the whole move when a corner is in a solid tile, revert
\* it when the box overlaps an active solid interactable, then clamp.
player_update(g, vx, vy) ==
    LET s == g.current_screen_id
        x1 == g.px + vx
        y1 == g.py + vy
        corners == {<<x1, y1>>, <<x1 + PLAYER_SIZE - 1, y1>>,
                    <<x1, y1 + PLAYER_SIZE - 1>>,
                    <<x1 + PLAYER_SIZE - 1, y1 + PLAYER_SIZE - 1>>}
        hit_tile == \E c \in corners : is_tile_solid(s, c[1], c[2])
        x2 == IF hit_tile THEN g.px ELSE x1
        y2 == IF hit_tile THEN g.py ELSE y1
        hit_entity ==
            \E i \in 1 .. Len(g.entities[s]) :
                LET e == g.entities[s][i]
                IN  /\ e \in InterIds
                    /\ g.inter[e].solid
                    /\ g.inter[e].active
                    /\ colliderect(x2, y2, PLAYER_SIZE, PLAYER_SIZE,
                                   g.inter[e].x, g.inter[e].y,
                                   g.inter[e].width, g.inter[e].height)
        x3 == IF hit_entity THEN g.px ELSE x2
        y3 == IF hit_entity THEN g.py ELSE y2
    IN  [g EXCEPT !.px = Max(-PLAYER_SIZE, Min(x3, NATIVE_WIDTH)),
                  !.py = Max(-PLAYER_SIZE, Min(y3, NATIVE_HEIGHT))]

\* Player.pick_up_item mutated: success is reported and the slot is left as it
\* was.
pick_up_item_noop(g, it) ==
    IF g.held_item = None
    THEN [ok |-> TRUE, g |-> g]
    ELSE [ok |-> FALSE, g |-> g]

\* Player.pick_up_item: [ok, g]
pick_up_item(g, it) ==
    IF g.held_item = None
    THEN [ok |-> TRUE, g |-> [g EXCEPT !.held_item = it]]
    ELSE [ok |-> FALSE, g |-> g]

\* Player.drop_item: the slot is emptied (the caller keeps the item)
drop_item(g) == [g EXCEPT !.held_item = None]

\* list.remove(x): the list without the first occurrence of x
RECURSIVE ListRemove(_, _)
ListRemove(list, x) ==
    IF list = <<>> THEN <<>>
    ELSE IF Head(list) = x THEN Tail(list)
    ELSE <<Head(list)>> \o ListRemove(Tail(list), x)

(***************************************************************************)
(* src/src/entities/interactable.py                                        *)
(***************************************************************************)

\* Interactable.can_interact_with_item
can_interact_with_item(o, it) ==
    IF o.is_activated THEN FALSE
    ELSE IF o.requires_item = None THEN FALSE
    ELSE it.item_type = o.requires_item

\* SleeplessStatue.interact mutated: the statue does not look at is_activated.
interact_statue_awake(g, e, held) ==
    LET o == g.inter[e]
        it == g.item[held]
        no == [result |-> None, g |-> g]
    IN  CASE o.kind = "Pedestal" ->
                IF ~o.has_crystal /\ can_interact_with_item(o, it)
                THEN [result |-> "True",
                      g |-> [g EXCEPT !.inter[e].has_crystal = TRUE,
                                      !.inter[e].is_activated = TRUE]]
                ELSE no
          [] o.kind = "Gate" ->
                IF ~o.is_activated /\ can_interact_with_item(o, it)
                THEN [result |-> "True",
                      g |-> [g EXCEPT !.inter[e].is_activated = TRUE,
                                      !.inter[e].solid = FALSE,
                                      !.inter[e].active = FALSE]]
                ELSE no
          [] o.kind = "Fountain" ->
                IF it.item_type = "WATERING_CAN"
                THEN [result |-> "filled",
                      g |-> [g EXCEPT !.item[held].item_type = "WATERING_CAN_FULL"]]
                ELSE no
          [] o.kind = "SoftDirt" ->
                IF ~o.has_acorn
                THEN IF it.item_type = "ACORN"
                     THEN [result |-> "planted",
                           g |-> [g EXCEPT !.inter[e].has_acorn = TRUE]]
                     ELSE no
                ELSE IF it.item_type = "WATERING_CAN_FULL"
                     THEN [result |-> "grow_tree", g |-> g]
                     ELSE no
          [] o.kind = "CrackedWall" ->
                IF ~o.is_activated /\ it.item_type = "BOMB"
                THEN [result |-> "bomb_placed", g |-> g]
                ELSE no
          [] o.kind = "ToxicBasin" ->
                IF ~o.is_activated /\ it.item_type = "CHALICE_FILLED"
                THEN [result |-> "cleansed",
                      g |-> [g EXCEPT !.inter[e].is_activated = TRUE,
                                      !.inter[e].deadly = FALSE,
                                      !.inter[e].active = FALSE]]
                ELSE no
          [] o.kind = "BlessedSpring" ->
                IF it.item_type = "CHALICE"
                THEN [result |-> "filled",
                      g |-> [g EXCEPT !.item[held].item_type = "CHALICE_FILLED"]]
                ELSE no
          [] o.kind = "SleeplessStatue" ->
                IF it.item_type = "FLUTE"
                THEN [result |-> "sleeping",
                      g |-> [g EXCEPT !.inter[e].is_activated = TRUE]]
                ELSE no
          [] OTHER -> no    \* Chasm: Interactable.interact returns None

\* Gate.interact mutated: the opened gate is not made non-solid.
interact_gate_stays_solid(g, e, held) ==
    LET o == g.inter[e]
        it == g.item[held]
        no == [result |-> None, g |-> g]
    IN  CASE o.kind = "Pedestal" ->
                IF ~o.has_crystal /\ can_interact_with_item(o, it)
                THEN [result |-> "True",
                      g |-> [g EXCEPT !.inter[e].has_crystal = TRUE,
                                      !.inter[e].is_activated = TRUE]]
                ELSE no
          [] o.kind = "Gate" ->
                IF ~o.is_activated /\ can_interact_with_item(o, it)
                THEN [result |-> "True",
                      g |-> [g EXCEPT !.inter[e].is_activated = TRUE,
                                      !.inter[e].active = FALSE]]
                ELSE no
          [] o.kind = "Fountain" ->
                IF it.item_type = "WATERING_CAN"
                THEN [result |-> "filled",
                      g |-> [g EXCEPT !.item[held].item_type = "WATERING_CAN_FULL"]]
                ELSE no
          [] o.kind = "SoftDirt" ->
                IF ~o.has_acorn
                THEN IF it.item_type = "ACORN"
                     THEN [result |-> "planted",
                           g |-> [g EXCEPT !.inter[e].has_acorn = TRUE]]
                     ELSE no
                ELSE IF it.item_type = "WATERING_CAN_FULL"
                     THEN [result |-> "grow_tree", g |-> g]
                     ELSE no
          [] o.kind = "CrackedWall" ->
                IF ~o.is_activated /\ it.item_type = "BOMB"
                THEN [result |-> "bomb_placed", g |-> g]
                ELSE no
          [] o.kind = "ToxicBasin" ->
                IF ~o.is_activated /\ it.item_type = "CHALICE_FILLED"
                THEN [result |-> "cleansed",
                      g |-> [g EXCEPT !.inter[e].is_activated = TRUE,
                                      !.inter[e].deadly = FALSE,
                                      !.inter[e].active = FALSE]]
                ELSE no
          [] o.kind = "BlessedSpring" ->
                IF it.item_type = "CHALICE"
                THEN [result |-> "filled",
                      g |-> [g EXCEPT !.item[held].item_type = "CHALICE_FILLED"]]
                ELSE no
          [] o.kind = "SleeplessStatue" ->
                IF ~o.is_activated /\ it.item_type = "FLUTE"
                THEN [result |-> "sleeping",
                      g |-> [g EXCEPT !.inter[e].is_activated = TRUE]]
                ELSE no
          [] OTHER -> no    \* Chasm: Interactable.interact returns None

\* Gate.interact mutated: either key opens either gate.
interact_any_key(g, e, held) ==
    LET o == g.inter[e]
        it == g.item[held]
        no == [result |-> None, g |-> g]
    IN  CASE o.kind = "Pedestal" ->
                IF ~o.has_crystal /\ can_interact_with_item(o, it)
                THEN [result |-> "True",
                      g |-> [g EXCEPT !.inter[e].has_crystal = TRUE,
                                      !.inter[e].is_activated = TRUE]]
                ELSE no
          [] o.kind = "Gate" ->
                IF ~o.is_activated /\ it.item_type \in {"GOLD_KEY", "SILVER_KEY"}
                THEN [result |-> "True",
                      g |-> [g EXCEPT !.inter[e].is_activated = TRUE,
                                      !.inter[e].solid = FALSE,
                                      !.inter[e].active = FALSE]]
                ELSE no
          [] o.kind = "Fountain" ->
                IF it.item_type = "WATERING_CAN"
                THEN [result |-> "filled",
                      g |-> [g EXCEPT !.item[held].item_type = "WATERING_CAN_FULL"]]
                ELSE no
          [] o.kind = "SoftDirt" ->
                IF ~o.has_acorn
                THEN IF it.item_type = "ACORN"
                     THEN [result |-> "planted",
                           g |-> [g EXCEPT !.inter[e].has_acorn = TRUE]]
                     ELSE no
                ELSE IF it.item_type = "WATERING_CAN_FULL"
                     THEN [result |-> "grow_tree", g |-> g]
                     ELSE no
          [] o.kind = "CrackedWall" ->
                IF ~o.is_activated /\ it.item_type = "BOMB"
                THEN [result |-> "bomb_placed", g |-> g]
                ELSE no
          [] o.kind = "ToxicBasin" ->
                IF ~o.is_activated /\ it.item_type = "CHALICE_FILLED"
                THEN [result |-> "cleansed",
                      g |-> [g EXCEPT !.inter[e].is_activated = TRUE,
                                      !.inter[e].deadly = FALSE,
                                      !.inter[e].active = FALSE]]
                ELSE no
          [] o.kind = "BlessedSpring" ->
                IF it.item_type = "CHALICE"
                THEN [result |-> "filled",
                      g |-> [g EXCEPT !.item[held].item_type = "CHALICE_FILLED"]]
                ELSE no
          [] o.kind = "SleeplessStatue" ->
                IF ~o.is_activated /\ it.item_type = "FLUTE"
                THEN [result |-> "sleeping",
                      g |-> [g EXCEPT !.inter[e].is_activated = TRUE]]
                ELSE no
          [] OTHER -> no    \* Chasm: Interactable.interact returns None

\* <Subclass>.interact(item) for the interactable e and the held item:
\* [result, g].  result is "True" or the returned string; a falsy result
\* (False, None) is None.
interact(g, e, held) ==
    LET o == g.inter[e]
        it == g.item[held]
        no == [result |-> None, g |-> g]
    IN  CASE o.kind = "Pedestal" ->
                IF ~o.has_crystal /\ can_interact_with_item(o, it)
                THEN [result |-> "True",
                      g |-> [g EXCEPT !.inter[e].has_crystal = TRUE,
                                      !.inter[e].is_activated = TRUE]]
                ELSE no
          [] o.kind = "Gate" ->
                IF ~o.is_activated /\ can_interact_with_item(o, it)
                THEN [result |-> "True",
                      g |-> [g EXCEPT !.inter[e].is_activated = TRUE,
                                      !.inter[e].solid = FALSE,
                                      !.inter[e].active = FALSE]]
                ELSE no
          [] o.kind = "Fountain" ->
                IF it.item_type = "WATERING_CAN"
                THEN [result |-> "filled",
                      g |-> [g EXCEPT !.item[held].item_type = "WATERING_CAN_FULL"]]
                ELSE no
          [] o.kind = "SoftDirt" ->
                IF ~o.has_acorn
                THEN IF it.item_type = "ACORN"
                     THEN [result |-> "planted",
                           g |-> [g EXCEPT !.inter[e].has_acorn = TRUE]]
                     ELSE no
                ELSE IF it.item_type = "WATERING_CAN_FULL"
                     THEN [result |-> "grow_tree", g |-> g]
                     ELSE no
          [] o.kind = "CrackedWall" ->
                IF ~o.is_activated /\ it.item_type = "BOMB"
                THEN [result |-> "bomb_placed", g |-> g]
                ELSE no
          [] o.kind = "ToxicBasin" ->
                IF ~o.is_activated /\ it.item_type = "CHALICE_FILLED"
                THEN [result |-> "cleansed",
                      g |-> [g EXCEPT !.inter[e].is_activated = TRUE,
                                      !.inter[e].deadly = FALSE,
                                      !.inter[e].active = FALSE]]
                ELSE no
          [] o.kind = "BlessedSpring" ->
                IF it.item_type = "CHALICE"
                THEN [result |-> "filled",
                      g |-> [g EXCEPT !.item[held].item_type = "CHALICE_FILLED"]]
                ELSE no
          [] o.kind = "SleeplessStatue" ->
                IF ~o.is_activated /\ it.item_type = "FLUTE"
                THEN [result |-> "sleeping",
                      g |-> [g EXCEPT !.inter[e].is_activated = TRUE]]
                ELSE no
          [] OTHER -> no    \* Chasm: Interactable.interact returns None

\* Chasm.grow_bridge mutated: the chasm stays solid
grow_bridge_stays_solid(g) == [g EXCEPT !.inter["chasm"].solid = TRUE]

\* Chasm.grow_bridge
grow_bridge(g) == [g EXCEPT !.inter["chasm"].solid = FALSE]

(***************************************************************************)
(* src/src/core/game.py: the SPACE key                                     *)
(***************************************************************************)

\* An outbound event of the handler that runs (a sound played, a line
\* printed); game.events holds the events of the last handler call.
emit(g, ev) == [g EXCEPT !.events = @ \cup {ev}]

Append1(g, s, e) == [g EXCEPT !.entities[s] = Append(@, e)]

\* Game._check_crystal_activation mutated: any() in the place of all().
check_crystal_activation_any(g) ==
    IF (\E c \in CrystalTypes : g.crystals_placed[c]) /\ ~g.all_crystals_placed
    THEN LET g1 == [g EXCEPT !.all_crystals_placed = TRUE]
             g2 == IF ~g1.inter["silver_gate"].is_activated
                   THEN [g1 EXCEPT !.inter["silver_gate"].is_activated = TRUE,
                                   !.inter["silver_gate"].solid = FALSE,
                                   !.inter["silver_gate"].active = FALSE]
                   ELSE g1
         IN  change_state(emit(g2, "ACTIVATION"), "ACTIVATION")
    ELSE g

\* Game._check_crystal_activation
check_crystal_activation(g) ==
    IF (\A c \in CrystalTypes : g.crystals_placed[c]) /\ ~g.all_crystals_placed
    THEN LET g1 == [g EXCEPT !.all_crystals_placed = TRUE]
             g2 == IF ~g1.inter["silver_gate"].is_activated
                   THEN [g1 EXCEPT !.inter["silver_gate"].is_activated = TRUE,
                                   !.inter["silver_gate"].solid = FALSE,
                                   !.inter["silver_gate"].active = FALSE]
                   ELSE g1
         IN  change_state(emit(g2, "ACTIVATION"), "ACTIVATION")
    ELSE g

\* Game.handle_space_interaction with the "filled" result handled like
\* "planted": the filled item is taken out of the player's hand
apply_interaction_fill_consumes(g, e, result) ==
    LET s == g.current_screen_id
        held == g.held_item
    IN  CASE result = "filled" -> drop_item(g)
          [] result = "planted" -> drop_item(g)
          [] result = "grow_tree" ->
                [grow_bridge(g) EXCEPT !.item[held].item_type = "WATERING_CAN"]
          [] result = "bomb_placed" ->
                LET g1 == drop_item(g)
                    g2 == [g1 EXCEPT !.item[held].x = g.inter[e].x,
                                     !.item[held].y = g.inter[e].y,
                                     !.item[held].active = TRUE]
                    g3 == Append1(g2, s, held)
                    g4 == [g3 EXCEPT !.inter[e].is_activated = TRUE,
                                     !.inter[e].solid = FALSE,
                                     !.inter[e].active = FALSE]
                IN  Append1(emit(g4, "BOMB_TIMER"), "CATACOMBS_2", "bomb2")
          [] result = "cleansed" -> drop_item(g)
          [] result = "sleeping" -> emit(g, "FLUTE_MELODY")
          [] result = "True" ->
                LET g1 == IF g.inter[e].kind = "Pedestal"
                          THEN IF g.item[held].item_type \in CrystalTypes
                               THEN check_crystal_activation(
                                        emit([g EXCEPT !.crystals_placed[g.item[held].item_type] = TRUE],
                                             "CRYSTAL_PLACE"))
                               ELSE g
                          ELSE IF g.inter[e].kind = "Gate"
                               THEN emit(g, "GATE_OPEN")
                               ELSE g
                IN  drop_item(g1)

\* Game.handle_space_interaction without lines 413-415: no bomb is put back
\* into CATACOMBS_2
apply_interaction_no_respawn(g, e, result) ==
    LET s == g.current_screen_id
        held == g.held_item
    IN  CASE result = "filled" -> g
          [] result = "planted" -> drop_item(g)
          [] result = "grow_tree" ->
                [grow_bridge(g) EXCEPT !.item[held].item_type = "WATERING_CAN"]
          [] result = "bomb_placed" ->
                LET g1 == drop_item(g)
                    g2 == [g1 EXCEPT !.item[held].x = g.inter[e].x,
                                     !.item[held].y = g.inter[e].y,
                                     !.item[held].active = TRUE]
                    g3 == Append1(g2, s, held)
                    g4 == [g3 EXCEPT !.inter[e].is_activated = TRUE,
                                     !.inter[e].solid = FALSE,
                                     !.inter[e].active = FALSE]
                IN  emit(g4, "BOMB_TIMER")
          [] result = "cleansed" -> drop_item(g)
          [] result = "sleeping" -> emit(g, "FLUTE_MELODY")
          [] result = "True" ->
                LET g1 == IF g.inter[e].kind = "Pedestal"
                          THEN IF g.item[held].item_type \in CrystalTypes
                               THEN check_crystal_activation(
                                        emit([g EXCEPT !.crystals_placed[g.item[held].item_type] = TRUE],
                                             "CRYSTAL_PLACE"))
                               ELSE g
                          ELSE IF g.inter[e].kind = "Gate"
                               THEN emit(g, "GATE_OPEN")
                               ELSE g
                IN  drop_item(g1)

\* Game.handle_space_interaction, lines 376-452: what the game does with the
\* truthy result of entity.interact(held_item); e is the interactable.
apply_interaction(g, e, result) ==
    LET s == g.current_screen_id
        held == g.held_item
    IN  CASE result = "filled" -> g
          [] result = "planted" -> drop_item(g)
          [] result = "grow_tree" ->
                [grow_bridge(g) EXCEPT !.item[held].item_type = "WATERING_CAN"]
          [] result = "bomb_placed" ->
                LET g1 == drop_item(g)
                    g2 == [g1 EXCEPT !.item[held].x = g.inter[e].x,
                                     !.item[held].y = g.inter[e].y,
                                     !.item[held].active = TRUE]
                    g3 == Append1(g2, s, held)
                    g4 == [g3 EXCEPT !.inter[e].is_activated = TRUE,
                                     !.inter[e].solid = FALSE,
                                     !.inter[e].active = FALSE]
                IN  Append1(emit(g4, "BOMB_TIMER"), "CATACOMBS_2", "bomb2")
          [] result = "cleansed" -> drop_item(g)
          [] result = "sleeping" -> emit(g, "FLUTE_MELODY")
          [] result = "True" ->
                LET g1 == IF g.inter[e].kind = "Pedestal"
                          THEN IF g.item[held].item_type \in CrystalTypes
                               THEN check_crystal_activation(
                                        emit([g EXCEPT !.crystals_placed[g.item[held].item_type] = TRUE],
                                             "CRYSTAL_PLACE"))
                               ELSE g
                          ELSE IF g.inter[e].kind = "Gate"
                               THEN emit(g, "GATE_OPEN")
                               ELSE g
                IN  drop_item(g1)

\* Game.handle_space_interaction, lines 365-452: the loop over the entity
\* list from index i (1-based); stops at the first interactable near the
\* player whose interact() result is truthy.  [interacted, g]
RECURSIVE use_item_loop(_, _)
use_item_loop(g, i) ==
    LET list == g.entities[g.current_screen_id]
    IN  IF i > Len(list) THEN [interacted |-> FALSE, g |-> g]
        ELSE LET e == list[i]
             IN  IF e \in InterIds /\ inter_is_near_player(g.inter[e], g.px, g.py)
                 THEN LET r == interact(g, e, g.held_item)
                      IN  IF r.result # None
                          THEN [interacted |-> TRUE,
                                g |-> apply_interaction(r.g, e, r.result)]
                          ELSE use_item_loop(r.g, i + 1)
                 ELSE use_item_loop(g, i + 1)

\* NPC.is_near_player(x, y, w, h, distance) for the cat and a dropped item:
\* distance between the centres < distance
cat_is_near(cat, it, distance) ==
    LET dx == (it.x + it.size \div 2) * SUB - (cat.x + (cat.width \div 2) * SUB)
        dy == (it.y + it.size \div 2) * SUB - (cat.y + (cat.height \div 2) * SUB)
    IN  dx * dx + dy * dy < (distance * SUB) * (distance * SUB)

\* Game.handle_space_interaction, lines 455-477, mutated: the dropped item is
\* left inactive.
drop_held_item_inactive(g) ==
    LET s == g.current_screen_id
        d == g.held_item
        g1 == drop_item(g)
        g2 == [g1 EXCEPT
                 !.item[d].x = g.px + PLAYER_SIZE \div 2 - g.item[d].size \div 2,
                 !.item[d].y = g.py + PLAYER_SIZE \div 2 - g.item[d].size \div 2]
        g3 == emit(Append1(g2, s, d), "DROP")
        cat_here == \E i \in 1 .. Len(g3.entities[s]) : g3.entities[s][i] = "cat"
    IN  IF g3.item[d].item_type = "FISH" /\ cat_here /\ cat_is_near(g3.cat, g3.item[d], 30)
        THEN [g3 EXCEPT !.cat.following = TRUE,
                        !.entities[s] = ListRemove(@, d)]
        ELSE g3

\* Game.handle_space_interaction, lines 455-477: drop the held item at the
\* player's position; a fish dropped near the cat is eaten.
drop_held_item(g) ==
    LET s == g.current_screen_id
        d == g.held_item
        g1 == drop_item(g)
        g2 == [g1 EXCEPT
                 !.item[d].x = g.px + PLAYER_SIZE \div 2 - g.item[d].size \div 2,
                 !.item[d].y = g.py + PLAYER_SIZE \div 2 - g.item[d].size \div 2,
                 !.item[d].active = TRUE]
        g3 == emit(Append1(g2, s, d), "DROP")
        cat_here == \E i \in 1 .. Len(g3.entities[s]) : g3.entities[s][i] = "cat"
    IN  IF g3.item[d].item_type = "FISH" /\ cat_here /\ cat_is_near(g3.cat, g3.item[d], 30)
        THEN [g3 EXCEPT !.cat.following = TRUE,
                        !.entities[s] = ListRemove(@, d)]
        ELSE g3

\* Game.handle_space_interaction, lines 478-502, mutated: the ring is picked
\* up like any other item.
RECURSIVE pickup_loop_ring_held(_, _)
pickup_loop_ring_held(g, i) ==
    LET s == g.current_screen_id
        list == g.entities[s]
    IN  IF i > Len(list) THEN g
        ELSE LET e == list[i]
             IN  IF e \in ItemIds /\ item_is_near_player(g.item[e], g.px, g.py)
                 THEN LET r == pick_up_item(g, e)
                      IN  IF r.ok
                          THEN emit([r.g EXCEPT !.item[e].active = FALSE,
                                                !.entities[s] = ListRemove(@, e)],
                                    "PICKUP")
                          ELSE pickup_loop_ring_held(r.g, i + 1)
                 ELSE pickup_loop_ring_held(g, i + 1)

\* Game.handle_space_interaction, lines 480-502: the pickup loop from index i;
\* the first item near the player is taken (the ring wins the game instead).
RECURSIVE pickup_loop(_, _)
pickup_loop(g, i) ==
    LET s == g.current_screen_id
        list == g.entities[s]
    IN  IF i > Len(list) THEN g
        ELSE LET e == list[i]
             IN  IF e \in ItemIds /\ item_is_near_player(g.item[e], g.px, g.py)
                 THEN IF g.item[e].item_type = "RING_OF_ETERNITY"
                      THEN change_state(
                               emit([g EXCEPT !.item[e].active = FALSE,
                                              !.entities[s] = ListRemove(@, e)],
                                    "VICTORY"),
                               "WIN")
                      ELSE LET r == pick_up_item(g, e)
                           IN  IF r.ok
                               THEN emit([r.g EXCEPT !.item[e].active = FALSE,
                                                     !.entities[s] = ListRemove(@, e)],
                                         "PICKUP")
                               ELSE pickup_loop(r.g, i + 1)
                 ELSE pickup_loop(g, i + 1)

\* Game.handle_space_interaction
handle_space_interaction(g) ==
    IF g.state \notin {"EXPLORE", "ACTIVATION", "CLIMAX"} THEN g
    ELSE IF g.held_item # None
         THEN LET r == use_item_loop(g, 1)
              IN  IF ~r.interacted THEN drop_held_item(r.g) ELSE r.g
         ELSE pickup_loop(g, 1)

\* Game._player_death mutated: the item is left behind and stays in the slot.
player_death_keeps_item(g) ==
    LET s == g.current_screen_id
        d == g.held_item
        g0 == emit(g, "DEATH")
        g1 == IF d # None
              THEN Append1([g0 EXCEPT !.item[d].x = g.px,
                                      !.item[d].y = g.py,
                                      !.item[d].active = TRUE],
                           s, d)
              ELSE g0
    IN  [g1 EXCEPT !.current_screen_id = "TOWER_HUB",
                   !.px = SpawnX,
                   !.py = SpawnY]

\* Game._player_death mutated: the player is moved to the spawn point but the
\* current screen is not reset.
player_death_no_respawn(g) ==
    LET s == g.current_screen_id
        d == g.held_item
        g0 == emit(g, "DEATH")
        g1 == IF d # None
              THEN Append1([drop_item(g0) EXCEPT !.item[d].x = g.px,
                                                 !.item[d].y = g.py,
                                                 !.item[d].active = TRUE],
                           s, d)
              ELSE g0
    IN  [g1 EXCEPT !.px = SpawnX,
                   !.py = SpawnY]

\* Game._player_death mutated: the death ends the game.
player_death_game_over(g) ==
    LET s == g.current_screen_id
        d == g.held_item
        g0 == emit(g, "DEATH")
        g1 == IF d # None
              THEN Append1([drop_item(g0) EXCEPT !.item[d].x = g.px,
                                                 !.item[d].y = g.py,
                                                 !.item[d].active = TRUE],
                           s, d)
              ELSE g0
    IN  change_state([g1 EXCEPT !.current_screen_id = "TOWER_HUB",
                                !.px = SpawnX,
                                !.py = SpawnY],
                     "GAME_OVER")

\* Game._player_death: a held item is left where the player died, the
\* player goes back to the hub's spawn point.
player_death(g) ==
    LET s == g.current_screen_id
        d == g.held_item
        g0 == emit(g, "DEATH")
        g1 == IF d # None
              THEN Append1([drop_item(g0) EXCEPT !.item[d].x = g.px,
                                                 !.item[d].y = g.py,
                                                 !.item[d].active = TRUE],
                           s, d)
              ELSE g0
    IN  [g1 EXCEPT !.current_screen_id = "TOWER_HUB",
                   !.px = SpawnX,
                   !.py = SpawnY]

(***************************************************************************)
(* src/src/entities/enemy.py: the enemy AI                                 *)
(***************************************************************************)

\* math.sqrt, rounded down to a whole number of units
RECURSIVE IsqrtIn(_, _, _)
IsqrtIn(n, lo, hi) ==
    \* invariant: lo * lo <= n < hi * hi
    IF hi - lo <= 1 THEN lo
    ELSE LET mid == (lo + hi) \div 2
         IN  IF mid * mid <= n THEN IsqrtIn(n, mid, hi) ELSE IsqrtIn(n, lo, mid)

Isqrt(n) == IsqrtIn(n, 0, Min(n + 1, 32768))

\* a * b / c of floats, rounded towards zero to a whole number of units
MulDiv(a, b, c) == IF a * b >= 0 THEN (a * b) \div c ELSE -((-(a * b)) \div c)

\* The four corners (in pixels) of an enemy's box at the fixed-point
\* position (xu, yu): (x, y), (x + size - 1, y), ...
BoxCorners(xu, yu, size) ==
    {<<Px(xu), Px(yu)>>, <<Px(xu + (size - 1) * SUB), Px(yu)>>,
     <<Px(xu), Px(yu + (size - 1) * SUB)>>,
     <<Px(xu + (size - 1) * SUB), Px(yu + (size - 1) * SUB)>>}

HitsWall(s, xu, yu, size) ==
    \E c \in BoxCorners(xu, yu, size) : is_tile_solid(s, c[1], c[2])

\* Enemy.is_colliding_with_player
is_colliding_with_player(en, px, py) ==
    colliderect(Px(en.x), Px(en.y), en.size, en.size, px, py, PLAYER_SIZE, PLAYER_SIZE)

\* random.randint(60, 120), random.randint(30, 60) and random.choice of the
\* four directions: the values a run of the model draws
MoveTimerDraws == {60, 120}
PauseTimerDraws == {30, 60}
DirX(d) == IF d = "EAST" THEN 1 ELSE IF d = "WEST" THEN -1 ELSE 0
DirY(d) == IF d = "SOUTH" THEN 1 ELSE IF d = "NORTH" THEN -1 ELSE 0

\* Crawler.update mutated: the update that ends a pause already makes the
\* first step (the return of line 136 is missing).
crawler_update_leaps(en, s, draw) ==
    IF ~en.alive THEN en
    ELSE IF en.is_paused
    THEN LET e1 == [en EXCEPT !.pause_timer = @ - 1]
         IN  IF e1.pause_timer <= 0
             THEN [e1 EXCEPT !.is_paused = FALSE,
                             !.x = @ + DirX(draw.dir) * (SUB \div 2),
                             !.y = @ + DirY(draw.dir) * (SUB \div 2),
                             !.move_timer = draw.timer,
                             !.direction_x = DirX(draw.dir),
                             !.direction_y = DirY(draw.dir)]
             ELSE e1
    ELSE LET e1 == [en EXCEPT !.move_timer = @ - 1]
         IN  IF e1.move_timer <= 0
             THEN [e1 EXCEPT !.is_paused = TRUE, !.pause_timer = draw.timer]
             ELSE LET speed == SUB \div 2
                      e2 == [e1 EXCEPT !.x = @ + e1.direction_x * speed,
                                       !.y = @ + e1.direction_y * speed]
                      e3 == IF HitsWall(s, e2.x, e2.y, e2.size)
                            THEN [e2 EXCEPT !.x = en.x, !.y = en.y,
                                            !.direction_x = -@,
                                            !.direction_y = -@]
                            ELSE e2
                      e4 == IF e3.x < 16 * SUB \/ e3.x > (NATIVE_WIDTH - e3.size - 16) * SUB
                            THEN [e3 EXCEPT !.x = en.x, !.direction_x = -@]
                            ELSE e3
                  IN  IF e4.y < 16 * SUB \/ e4.y > (NATIVE_HEIGHT - e4.size - 16) * SUB
                      THEN [e4 EXCEPT !.y = en.y, !.direction_y = -@]
                      ELSE e4

\* Crawler.update; draw = [timer, dir] are the random values it draws when a
\* timer runs out.  Speed 0.5 pixels per update.
crawler_update(en, s, draw) ==
    IF ~en.alive THEN en
    ELSE IF en.is_paused
    THEN LET e1 == [en EXCEPT !.pause_timer = @ - 1]
         IN  IF e1.pause_timer <= 0
             THEN [e1 EXCEPT !.is_paused = FALSE,
                             !.move_timer = draw.timer,
                             !.direction_x = DirX(draw.dir),
                             !.direction_y = DirY(draw.dir)]
             ELSE e1
    ELSE LET e1 == [en EXCEPT !.move_timer = @ - 1]
         IN  IF e1.move_timer <= 0
             THEN [e1 EXCEPT !.is_paused = TRUE, !.pause_timer = draw.timer]
             ELSE LET speed == SUB \div 2
                      e2 == [e1 EXCEPT !.x = @ + e1.direction_x * speed,
                                       !.y = @ + e1.direction_y * speed]
                      e3 == IF HitsWall(s, e2.x, e2.y, e2.size)
                            THEN [e2 EXCEPT !.x = en.x, !.y = en.y,
                                            !.direction_x = -@,
                                            !.direction_y = -@]
                            ELSE e2
                      e4 == IF e3.x < 16 * SUB \/ e3.x > (NATIVE_WIDTH - e3.size - 16) * SUB
                            THEN [e3 EXCEPT !.x = en.x, !.direction_x = -@]
                            ELSE e3
                  IN  IF e4.y < 16 * SUB \/ e4.y > (NATIVE_HEIGHT - e4.size - 16) * SUB
                      THEN [e4 EXCEPT !.y = en.y, !.direction_y = -@]
                      ELSE e4

\* Chaser.aggro_range and the value Chaser.update gives the return timer
AGGRO_RANGE == 150
RETURN_TIME == 180

\* Chaser.has_line_of_sight: within the aggro range, and no sample point of
\* the ray (one every 8 pixels) in a solid tile
has_line_of_sight(en, px, py, s) ==
    LET dx == px * SUB - en.x
        dy == py * SUB - en.y
        d2 == dx * dx + dy * dy
        steps == Isqrt(d2) \div (8 * SUB)
    IN  IF d2 > (AGGRO_RANGE * SUB) * (AGGRO_RANGE * SUB) THEN FALSE
        ELSE IF steps = 0 THEN TRUE
        ELSE \A i \in 1 .. steps - 1 :
                ~is_tile_solid(s, Px(en.x + MulDiv(dx, i, steps)),
                                  Px(en.y + MulDiv(dy, i, steps)))

\* Chaser.update, mutated: the chaser gives up one update late (timer < 0)
chaser_update_late(en, px, py, s) ==
    IF ~en.alive THEN en
    ELSE LET e1 == IF has_line_of_sight(en, px, py, s)
                   THEN [en EXCEPT !.is_chasing = TRUE, !.return_timer = RETURN_TIME]
                   ELSE IF en.is_chasing
                        THEN LET t == [en EXCEPT !.return_timer = @ - 1]
                             IN  IF t.return_timer < 0
                                 THEN [t EXCEPT !.is_chasing = FALSE]
                                 ELSE t
                        ELSE en
         IN  IF e1.is_chasing
             THEN LET dx == px * SUB - e1.x
                      dy == py * SUB - e1.y
                      dist == Isqrt(dx * dx + dy * dy)
                      speed == (3 * SUB) \div 2
                  IN  IF dx * dx + dy * dy > 0
                      THEN LET e2 == [e1 EXCEPT !.x = @ + MulDiv(dx, speed, Max(dist, 1)),
                                                !.y = @ + MulDiv(dy, speed, Max(dist, 1))]
                           IN  IF HitsWall(s, e2.x, e2.y, e2.size)
                               THEN [e2 EXCEPT !.x = e1.x, !.y = e1.y]
                               ELSE e2
                      ELSE e1
             ELSE LET dx == e1.spawn_x - e1.x
                      dy == e1.spawn_y - e1.y
                      dist == Isqrt(dx * dx + dy * dy)
                      speed == (3 * SUB) \div 4
                  IN  IF dx * dx + dy * dy > (2 * SUB) * (2 * SUB)
                      THEN [e1 EXCEPT !.x = @ + MulDiv(dx, speed, dist),
                                      !.y = @ + MulDiv(dy, speed, dist)]
                      ELSE e1

\* Chaser.update: speed 1.5 pixels per update towards the player while
\* chasing, 0.75 back to the spawn point otherwise
chaser_update(en, px, py, s) ==
    IF ~en.alive THEN en
    ELSE LET e1 == IF has_line_of_sight(en, px, py, s)
                   THEN [en EXCEPT !.is_chasing = TRUE, !.return_timer = RETURN_TIME]
                   ELSE IF en.is_chasing
                        THEN LET t == [en EXCEPT !.return_timer = @ - 1]
                             IN  IF t.return_timer <= 0
                                 THEN [t EXCEPT !.is_chasing = FALSE]
                                 ELSE t
                        ELSE en
         IN  IF e1.is_chasing
             THEN LET dx == px * SUB - e1.x
                      dy == py * SUB - e1.y
                      dist == Isqrt(dx * dx + dy * dy)
                      speed == (3 * SUB) \div 2
                  IN  IF dx * dx + dy * dy > 0
                      THEN LET e2 == [e1 EXCEPT !.x = @ + MulDiv(dx, speed, Max(dist, 1)),
                                                !.y = @ + MulDiv(dy, speed, Max(dist, 1))]
                           IN  IF HitsWall(s, e2.x, e2.y, e2.size)
                               THEN [e2 EXCEPT !.x = e1.x, !.y = e1.y]
                               ELSE e2
                      ELSE e1
             ELSE LET dx == e1.spawn_x - e1.x
                      dy == e1.spawn_y - e1.y
                      dist == Isqrt(dx * dx + dy * dy)
                      speed == (3 * SUB) \div 4
                  IN  IF dx * dx + dy * dy > (2 * SUB) * (2 * SUB)
                      THEN [e1 EXCEPT !.x = @ + MulDiv(dx, speed, dist),
                                      !.y = @ + MulDiv(dy, speed, dist)]
                      ELSE e1

\* Sentinel.update, mutated: the index wraps one waypoint early
sentinel_update_wraps_early(en) ==
    IF ~en.alive THEN en
    ELSE IF en.waypoints = <<>> THEN en
    ELSE LET target == en.waypoints[en.current_waypoint + 1]
             dx == target[1] * SUB - en.x
             dy == target[2] * SUB - en.y
             d2 == dx * dx + dy * dy
             dist == Isqrt(d2)
             speed == 2 * SUB
         IN  IF d2 < (5 * SUB) * (5 * SUB)
             THEN [en EXCEPT !.current_waypoint = (@ + 1) % (Len(en.waypoints) - 1)]
             ELSE [en EXCEPT !.x = @ + MulDiv(dx, speed, dist),
                             !.y = @ + MulDiv(dy, speed, dist)]

\* Sentinel.update: speed 2 pixels per update towards the current waypoint,
\* next waypoint once within 5 pixels
sentinel_update(en) ==
    IF ~en.alive THEN en
    ELSE IF en.waypoints = <<>> THEN en
    ELSE LET target == en.waypoints[en.current_waypoint + 1]
             dx == target[1] * SUB - en.x
             dy == target[2] * SUB - en.y
             d2 == dx * dx + dy * dy
             dist == Isqrt(d2)
             speed == 2 * SUB
         IN  IF d2 < (5 * SUB) * (5 * SUB)
             THEN [en EXCEPT !.current_waypoint = (@ + 1) % Len(en.waypoints)]
             ELSE [en EXCEPT !.x = @ + MulDiv(dx, speed, dist),
                             !.y = @ + MulDiv(dy, speed, dist)]


\* random.uniform(-1, 1) * speed for the boss (speed 3.0), in 1/SUB pixels per
\* update: the values a run of the model draws
VelocityDraws == {-(3 * SUB), SUB + 1}

\* the random velocity the boss is created with, of the draws the model makes
InitDraws == {<<-(3 * SUB), SUB + 1>>, <<SUB + 1, -(3 * SUB)>>}

\* The corners TheVoid.take_hit teleports to
Corners == << <<40, 40>>, <<NATIVE_WIDTH - 64, 40>>, <<40, NATIVE_HEIGHT - 64>>,
              <<NATIVE_WIDTH - 64, NATIVE_HEIGHT - 64>> >>

\* TheVoid.invulnerable_timer after an accepted hit
INVULNERABLE_TIME == 30

\* Projectile.__init__ at (xu, yu) aimed at the player, speed 2.0
Projectile(xu, yu, px, py) ==
    LET dx == px * SUB - xu
        dy == py * SUB - yu
        d2 == dx * dx + dy * dy
        dist == Isqrt(d2)
        speed == 2 * SUB
    IN  [x |-> xu, y |-> yu, size |-> 8, active |-> TRUE,
         velocity_x |-> IF d2 > 0 THEN MulDiv(dx, speed, Max(dist, 1)) ELSE 0,
         velocity_y |-> IF d2 > 0 THEN MulDiv(dy, speed, Max(dist, 1)) ELSE 0]

\* Projectile.update
projectile_update(p) ==
    LET x1 == p.x + p.velocity_x
        y1 == p.y + p.velocity_y
    IN  [p EXCEPT !.x = x1, !.y = y1,
                  !.active = IF x1 < 0 \/ x1 > NATIVE_WIDTH * SUB
                                \/ y1 < 0 \/ y1 > NATIVE_HEIGHT * SUB
                             THEN FALSE ELSE @]

\* Projectile.is_colliding_with_player
projectile_is_colliding_with_player(p, px, py) ==
    colliderect(Px(p.x), Px(p.y), p.size, p.size, px, py, PLAYER_SIZE, PLAYER_SIZE)

\* TheVoid.take_hit mutated: the invulnerability window is not consulted.
take_hit_no_invulnerability(b, px, py, draw) ==
    LET b1 == [b EXCEPT !.hits_remaining = @ - 1]
    IN  IF b1.hits_remaining <= 0
        THEN [defeated |-> TRUE, boss |-> b1]
        ELSE LET cx == Corners[draw.corner][1] * SUB
                 cy == Corners[draw.corner][2] * SUB
             IN  [defeated |-> FALSE,
                  boss |-> [b1 EXCEPT
                     !.x = cx, !.y = cy,
                     !.projectiles = Append(@, Projectile(cx + (b.size \div 2) * SUB,
                                                          cy + (b.size \div 2) * SUB,
                                                          px, py)),
                     !.velocity_x = draw.vx, !.velocity_y = draw.vy,
                     !.invulnerable = TRUE,
                     !.invulnerable_timer = INVULNERABLE_TIME]]

\* TheVoid.take_hit: [defeated, boss]; draw = [corner, vx, vy] are the random
\* corner and the new random velocity
take_hit(b, px, py, draw) ==
    IF b.invulnerable THEN [defeated |-> FALSE, boss |-> b]
    ELSE LET b1 == [b EXCEPT !.hits_remaining = @ - 1]
         IN  IF b1.hits_remaining <= 0
             THEN [defeated |-> TRUE, boss |-> b1]
             ELSE LET cx == Corners[draw.corner][1] * SUB
                      cy == Corners[draw.corner][2] * SUB
                  IN  [defeated |-> FALSE,
                       boss |-> [b1 EXCEPT
                          !.x = cx, !.y = cy,
                          !.projectiles = Append(@, Projectile(cx + (b.size \div 2) * SUB,
                                                               cy + (b.size \div 2) * SUB,
                                                               px, py)),
                          !.velocity_x = draw.vx, !.velocity_y = draw.vy,
                          !.invulnerable = TRUE,
                          !.invulnerable_timer = INVULNERABLE_TIME]]

\* the projectiles that are still active after their update, in order
RECURSIVE projectiles_update(_)
projectiles_update(ps) ==
    IF ps = <<>> THEN <<>>
    ELSE LET p == projectile_update(Head(ps))
         IN  (IF p.active THEN <<p>> ELSE <<>>) \o projectiles_update(Tail(ps))

\* TheVoid.update mutated: the invulnerability ends one update early.
void_update_short_window(b) ==
    IF ~b.alive THEN b
    ELSE LET t  == IF b.invulnerable THEN b.invulnerable_timer - 1
                   ELSE b.invulnerable_timer
             iv == IF b.invulnerable /\ t <= 1 THEN FALSE ELSE b.invulnerable
             x1 == b.x + b.velocity_x
             y1 == b.y + b.velocity_y
             xmax == (NATIVE_WIDTH - b.size - 32) * SUB
             ymax == (NATIVE_HEIGHT - b.size - 32) * SUB
             bx == x1 < 32 * SUB \/ x1 > xmax
             by == y1 < 32 * SUB \/ y1 > ymax
         IN  [b EXCEPT
                !.invulnerable_timer = t,
                !.invulnerable = iv,
                !.x = IF bx THEN Max(32 * SUB, Min(x1, xmax)) ELSE x1,
                !.y = IF by THEN Max(32 * SUB, Min(y1, ymax)) ELSE y1,
                !.velocity_x = IF bx THEN -@ ELSE @,
                !.velocity_y = IF by THEN -@ ELSE @,
                !.projectiles = projectiles_update(@)]

\* TheVoid.update mutated: on the x axis the velocity is reflected but the
\* position is not clamped.
void_update_no_clamp(b) ==
    IF ~b.alive THEN b
    ELSE LET t  == IF b.invulnerable THEN b.invulnerable_timer - 1
                   ELSE b.invulnerable_timer
             iv == IF b.invulnerable /\ t <= 0 THEN FALSE ELSE b.invulnerable
             x1 == b.x + b.velocity_x
             y1 == b.y + b.velocity_y
             xmax == (NATIVE_WIDTH - b.size - 32) * SUB
             ymax == (NATIVE_HEIGHT - b.size - 32) * SUB
             bx == x1 < 32 * SUB \/ x1 > xmax
             by == y1 < 32 * SUB \/ y1 > ymax
         IN  [b EXCEPT
                !.invulnerable_timer = t,
                !.invulnerable = iv,
                !.x = x1,
                !.y = IF by THEN Max(32 * SUB, Min(y1, ymax)) ELSE y1,
                !.velocity_x = IF bx THEN -@ ELSE @,
                !.velocity_y = IF by THEN -@ ELSE @,
                !.projectiles = projectiles_update(@)]

\* TheVoid.update
void_update(b) ==
    IF ~b.alive THEN b
    ELSE LET t  == IF b.invulnerable THEN b.invulnerable_timer - 1
                   ELSE b.invulnerable_timer
             iv == IF b.invulnerable /\ t <= 0 THEN FALSE ELSE b.invulnerable
             x1 == b.x + b.velocity_x
             y1 == b.y + b.velocity_y
             xmax == (NATIVE_WIDTH - b.size - 32) * SUB
             ymax == (NATIVE_HEIGHT - b.size - 32) * SUB
             bx == x1 < 32 * SUB \/ x1 > xmax
             by == y1 < 32 * SUB \/ y1 > ymax
         IN  [b EXCEPT
                !.invulnerable_timer = t,
                !.invulnerable = iv,
                !.x = IF bx THEN Max(32 * SUB, Min(x1, xmax)) ELSE x1,
                !.y = IF by THEN Max(32 * SUB, Min(y1, ymax)) ELSE y1,
                !.velocity_x = IF bx THEN -@ ELSE @,
                !.velocity_y = IF by THEN -@ ELSE @,
                !.projectiles = projectiles_update(@)]

\* Cat.update: a following cat moves 1.5 pixels per update towards the
\* player while further than 20 pixels away, and is kept on screen
cat_update(c, px, py) ==
    IF ~c.following THEN c
    ELSE LET dx == px * SUB - c.x
             dy == py * SUB - c.y
             d2 == dx * dx + dy * dy
             dist == Isqrt(d2)
             speed == (3 * SUB) \div 2
             x1 == IF d2 > (20 * SUB) * (20 * SUB) THEN c.x + MulDiv(dx, speed, dist) ELSE c.x
             y1 == IF d2 > (20 * SUB) * (20 * SUB) THEN c.y + MulDiv(dy, speed, dist) ELSE c.y
         IN  [c EXCEPT !.x = Max(0, Min((NATIVE_WIDTH - c.width) * SUB, x1)),
                       !.y = Max(0, Min((NATIVE_HEIGHT - c.height) * SUB, y1))]

\* Cat.set_position
set_position(c, x, y) == [c EXCEPT !.x = x * SUB, !.y = y * SUB]


(***************************************************************************)
(* src/src/world/camera.py, World.change_screen                            *)
(***************************************************************************)

\* Camera.check_screen_transition
check_screen_transition(player_x, player_y, player_width, player_height) ==
    IF player_x + player_width < 0 THEN "WEST"
    ELSE IF player_x > NATIVE_WIDTH THEN "EAST"
    ELSE IF player_y + player_height < 0 THEN "NORTH"
    ELSE IF player_y > NATIVE_HEIGHT THEN "SOUTH"
    ELSE None

\* Camera.get_player_spawn_position
get_player_spawn_position(direction, player_width, player_height) ==
    LET margin == 8
    IN  IF direction = "WEST"
        THEN <<NATIVE_WIDTH - player_width - margin,
               NATIVE_HEIGHT \div 2 - player_height \div 2>>
        ELSE IF direction = "EAST"
        THEN <<margin, NATIVE_HEIGHT \div 2 - player_height \div 2>>
        ELSE IF direction = "NORTH"
        THEN <<NATIVE_WIDTH \div 2 - player_width \div 2,
               NATIVE_HEIGHT - player_height - margin>>
        ELSE IF direction = "SOUTH"
        THEN <<NATIVE_WIDTH \div 2 - player_width \div 2, margin>>
        ELSE <<NATIVE_WIDTH \div 2, NATIVE_HEIGHT \div 2>>

\* Camera.get_opposite_direction
get_opposite_direction(direction) ==
    CASE direction = "NORTH" -> "SOUTH"
      [] direction = "SOUTH" -> "NORTH"
      [] direction = "EAST" -> "WEST"
      [] direction = "WEST" -> "EAST"
      [] OTHER -> None

\* World.change_screen mutated: the screen is reported as changed whether or
\* not there is a connection.
change_screen_always(g, direction) ==
    LET next_screen_id == get_connection(g.current_screen_id, direction)
    IN  IF next_screen_id # None
        THEN [ok |-> TRUE, g |-> [g EXCEPT !.current_screen_id = next_screen_id]]
        ELSE [ok |-> TRUE, g |-> g]

\* World.change_screen: [ok, g]
change_screen(g, direction) ==
    LET next_screen_id == get_connection(g.current_screen_id, direction)
    IN  IF next_screen_id # None
        THEN [ok |-> TRUE, g |-> [g EXCEPT !.current_screen_id = next_screen_id]]
        ELSE [ok |-> FALSE, g |-> g]

\* the list without the cat
RECURSIVE WithoutCat(_)
WithoutCat(list) ==
    IF list = <<>> THEN <<>>
    ELSE (IF Head(list) = "cat" THEN <<>> ELSE <<Head(list)>>) \o WithoutCat(Tail(list))

\* Game.update, lines 557-591: the screen transition at the end of a tick in
\* EXPLORE or ACTIVATION
screen_transition(g) ==
    LET transition_dir == check_screen_transition(g.px, g.py, PLAYER_SIZE, PLAYER_SIZE)
    IN  IF transition_dir = None THEN g
        ELSE LET r == change_screen(g, transition_dir)
             IN  IF ~r.ok THEN r.g
                 ELSE LET opposite == get_opposite_direction(transition_dir)
                          new == get_player_spawn_position(opposite, PLAYER_SIZE, PLAYER_SIZE)
                          g1 == emit([r.g EXCEPT !.px = new[1], !.py = new[2]], "SCREEN")
                      IN  IF g1.cat.following
                          THEN LET g2 == [g1 EXCEPT
                                            !.entities = [s \in ScreenID |->
                                                IF s = "FINAL_CHAMBER" THEN @[s]
                                                ELSE WithoutCat(@[s])],
                                            !.cat = set_position(@, new[1], new[2] + 20)]
                               IN  Append1(g2, g2.current_screen_id, "cat")
                          ELSE g1

(***************************************************************************)
(* src/src/core/game.py: combat and the tick                               *)
(***************************************************************************)

IsEnemy(e) == e \in EnemyIds \cup {BossId}
EnemyOf(g, e) == IF e = BossId THEN g.boss ELSE g.enemy[e]

\* Game._handle_combat, lines 674-676, mutated: the immunity tag is ignored.
kills_enemy_ignoring_immunity(player_has_sword, en) == player_has_sword

\* Game._handle_combat, lines 674-676: the sword kills an enemy that is not
\* immune to it
kills_enemy(player_has_sword, en) == player_has_sword /\ ~en.immune_to_sword

\* Game._handle_combat, lines 678-679
kill_enemy(g, s, e) ==
    LET g1 == IF e = BossId THEN [g EXCEPT !.boss.alive = FALSE]
              ELSE [g EXCEPT !.enemy[e].alive = FALSE]
    IN  emit([g1 EXCEPT !.entities[s] = ListRemove(@, e)], "KILL")

\* Game._handle_combat, lines 666-691: the loop over the entity list of screen
\* s from index i.  The list is the one being iterated: after a removal the
\* iterator still advances by one, so the entry that moved into the freed
\* place is not visited.  [dead, g]
RECURSIVE combat_loop(_, _, _, _)
combat_loop(g, s, i, player_has_sword) ==
    IF i > Len(g.entities[s]) THEN [dead |-> FALSE, g |-> g]
    ELSE LET e == g.entities[s][i]
         IN  IF /\ IsEnemy(e)
                /\ EnemyOf(g, e).alive
                /\ is_colliding_with_player(EnemyOf(g, e), g.px, g.py)
             THEN IF kills_enemy(player_has_sword, EnemyOf(g, e))
                  THEN combat_loop(kill_enemy(g, s, e), s, i + 1, player_has_sword)
                  ELSE [dead |-> TRUE, g |-> player_death(g)]
             ELSE combat_loop(g, s, i + 1, player_has_sword)

\* a deadly check that forgets the flag: every toxic basin kills
touches_deadly_kind(g, s) ==
    \E i \in 1 .. Len(g.entities[s]) :
        LET e == g.entities[s][i]
        IN  /\ e \in InterIds
            /\ g.inter[e].kind = "ToxicBasin"
            /\ colliderect(g.inter[e].x, g.inter[e].y, g.inter[e].width, g.inter[e].height,
                           g.px, g.py, PLAYER_SIZE, PLAYER_SIZE)

\* Game._handle_combat, lines 694-703: a deadly interactable that overlaps the
\* player
touches_deadly(g, s) ==
    \E i \in 1 .. Len(g.entities[s]) :
        LET e == g.entities[s][i]
        IN  /\ e \in InterIds
            /\ g.inter[e].deadly
            /\ colliderect(g.inter[e].x, g.inter[e].y, g.inter[e].width, g.inter[e].height,
                           g.px, g.py, PLAYER_SIZE, PLAYER_SIZE)

player_has_sword(g) ==
    g.held_item # None /\ g.item[g.held_item].item_type = "SWORD"

\* Game._handle_combat(current_screen)
handle_combat(g, s) ==
    LET r == combat_loop(g, s, 1, player_has_sword(g))
    IN  IF r.dead THEN r.g
        ELSE IF touches_deadly(r.g, s) THEN player_death(r.g)
        ELSE r.g


\* the ids in a list
ListIds(list) == {list[i] : i \in 1 .. Len(list)}

\* a draw for a crawler that draws nothing in this update
NoDraw == [timer |-> 0, dir |-> "NORTH"]

\* Game.update, lines 541-544: every enemy in the list of screen s is updated;
\* the updates do not depend on each other.  draws.crawler gives the random
\* values of the crawlers that draw some.
update_enemies(g, s, draws) ==
    LET here == ListIds(g.entities[s])
    IN  [g EXCEPT
           !.enemy = [e \in EnemyIds |->
               IF e \notin here THEN @[e]
               ELSE CASE @[e].enemy_type = "CRAWLER" ->
                             crawler_update(@[e], s,
                                 IF e \in DOMAIN draws.crawler THEN draws.crawler[e]
                                 ELSE NoDraw)
                      [] @[e].enemy_type = "CHASER" -> chaser_update(@[e], g.px, g.py, s)
                      [] OTHER -> sentinel_update(@[e])],
           !.boss = IF BossId \in here THEN void_update(@) ELSE @]

\* Game.update, lines 546-549: the NPCs of the list (the owl's update only
\* prints a hint)
update_npcs(g, s) ==
    IF "cat" \in ListIds(g.entities[s])
    THEN [g EXCEPT !.cat = cat_update(@, g.px, g.py)]
    ELSE g

\* Game.update, lines 517-530, mutated: the gate is passed whether or not the
\* crystals are placed.
at_final_gate_unlocked(g) ==
    /\ g.current_screen_id = "TOWER_HUB"
    /\ Abs(g.px - 80) < 20
    /\ Abs(g.py - 20) < 20
    /\ g.py < 30

\* Game.update, lines 517-530, mutated: the open gate is asked for instead of
\* all_crystals_placed.
at_final_gate_by_key(g) ==
    /\ g.current_screen_id = "TOWER_HUB"
    /\ g.inter["silver_gate"].is_activated
    /\ Abs(g.px - 80) < 20
    /\ Abs(g.py - 20) < 20
    /\ g.py < 30

\* Game.update, lines 517-530: the player standing in the open silver gate
at_final_gate(g) ==
    /\ g.current_screen_id = "TOWER_HUB"
    /\ g.all_crystals_placed
    /\ Abs(g.px - 80) < 20
    /\ Abs(g.py - 20) < 20
    /\ g.py < 30

\* Game.update in EXPLORE and ACTIVATION mutated: no return after the entry
\* into the final chamber (line 530), the player is updated in the same tick.
update_explore_no_return(g, vx, vy, draws) ==
    IF at_final_gate(g)
    THEN player_update(change_state(emit([g EXCEPT !.current_screen_id = "FINAL_CHAMBER",
                                                   !.px = NATIVE_WIDTH \div 2 - 8,
                                                   !.py = NATIVE_HEIGHT - 32],
                                         "FINAL"),
                                    "CLIMAX"),
                       vx, vy)
    ELSE LET s  == g.current_screen_id
             g1 == player_update(g, vx, vy)
             g2 == update_enemies(g1, s, draws)
             g3 == update_npcs(g2, s)
             g4 == handle_combat(g3, s)
         IN  screen_transition(g4)

\* Game.update in EXPLORE and ACTIVATION; (vx, vy) is the velocity
\* Player.handle_input derived from the keys
update_explore(g, vx, vy, draws) ==
    IF at_final_gate(g)
    THEN change_state(emit([g EXCEPT !.current_screen_id = "FINAL_CHAMBER",
                                     !.px = NATIVE_WIDTH \div 2 - 8,
                                     !.py = NATIVE_HEIGHT - 32],
                           "FINAL"),
                      "CLIMAX")
    ELSE LET s  == g.current_screen_id
             g1 == player_update(g, vx, vy)
             g2 == update_enemies(g1, s, draws)
             g3 == update_npcs(g2, s)
             g4 == handle_combat(g3, s)
         IN  screen_transition(g4)

\* Game.update, lines 618-628, mutated: boss_defeated is not set (line 621).
sword_hit_no_flag(g, draw) ==
    LET r == take_hit(g.boss, g.px, g.py, draw)
    IN  IF r.defeated
        THEN Append1(emit([g EXCEPT !.boss = [r.boss EXCEPT !.alive = FALSE]],
                          "DEFEATED"),
                     g.current_screen_id, "ring")
        ELSE [g EXCEPT !.boss = r.boss]

\* Game.update, lines 618-628: the sword touches the boss; draw is what
\* take_hit draws
sword_hit(g, draw) ==
    LET r == take_hit(g.boss, g.px, g.py, draw)
    IN  IF r.defeated
        THEN Append1(emit([g EXCEPT !.boss = [r.boss EXCEPT !.alive = FALSE],
                                    !.boss_defeated = TRUE],
                          "DEFEATED"),
                     g.current_screen_id, "ring")
        ELSE [g EXCEPT !.boss = r.boss]

\* Game.update in CLIMAX mutated: boss.alive is not looked at (line 615).
update_climax_dead_boss(g, vx, vy, draws) ==
    LET g1 == player_update(g, vx, vy)
    IN  LET g2 == [g1 EXCEPT !.boss = void_update(@)]
                 sword == player_has_sword(g2)
                 g3 == IF sword /\ is_colliding_with_player(g2.boss, g2.px, g2.py)
                       THEN sword_hit(g2, draws.boss)
                       ELSE g2
             IN  IF is_colliding_with_player(g3.boss, g3.px, g3.py) /\ ~sword
                 THEN player_death(g3)
                 ELSE IF \E i \in 1 .. Len(g3.boss.projectiles) :
                            projectile_is_colliding_with_player(g3.boss.projectiles[i],
                                                                g3.px, g3.py)
                 THEN player_death(g3)
                 ELSE g3

\* Game.update in CLIMAX mutated: contact with the boss kills a player who
\* holds the sword too (line 634 without "not player_has_sword").
update_climax_contact_kills(g, vx, vy, draws) ==
    LET g1 == player_update(g, vx, vy)
    IN  IF ~g1.boss.alive THEN g1
        ELSE LET g2 == [g1 EXCEPT !.boss = void_update(@)]
                 sword == player_has_sword(g2)
                 g3 == IF sword /\ is_colliding_with_player(g2.boss, g2.px, g2.py)
                       THEN sword_hit(g2, draws.boss)
                       ELSE g2
             IN  IF is_colliding_with_player(g3.boss, g3.px, g3.py)
                 THEN player_death(g3)
                 ELSE IF \E i \in 1 .. Len(g3.boss.projectiles) :
                            projectile_is_colliding_with_player(g3.boss.projectiles[i],
                                                                g3.px, g3.py)
                 THEN player_death(g3)
                 ELSE g3

\* Game.update in CLIMAX
update_climax(g, vx, vy, draws) ==
    LET g1 == player_update(g, vx, vy)
    IN  IF ~g1.boss.alive THEN g1
        ELSE LET g2 == [g1 EXCEPT !.boss = void_update(@)]
                 sword == player_has_sword(g2)
                 g3 == IF sword /\ is_colliding_with_player(g2.boss, g2.px, g2.py)
                       THEN sword_hit(g2, draws.boss)
                       ELSE g2
             IN  IF is_colliding_with_player(g3.boss, g3.px, g3.py) /\ ~sword
                 THEN player_death(g3)
                 ELSE IF \E i \in 1 .. Len(g3.boss.projectiles) :
                            projectile_is_colliding_with_player(g3.boss.projectiles[i],
                                                                g3.px, g3.py)
                 THEN player_death(g3)
                 ELSE g3

\* the largest value the model lets victory_timer count to
MaxVictoryTimer == 2

\* Game.update
update(g, vx, vy, draws) ==
    CASE g.state = "INIT" -> change_state(g, "EXPLORE")
      [] g.state \in {"EXPLORE", "ACTIVATION"} -> update_explore(g, vx, vy, draws)
      [] g.state = "CLIMAX" -> update_climax(g, vx, vy, draws)
      [] g.state = "WIN" ->
            [g EXCEPT !.victory_timer = Min(@ + 1, MaxVictoryTimer)]
      [] OTHER -> g

\* Game._restart_game mutated: the world is not built again, the screens
\* keep their entities.
restart_game_keeps_world(g, vx, vy) ==
    [NewGame(vx, vy) EXCEPT !.state = "INIT",
                            !.previous_state = IF g.state # "INIT" THEN g.state
                                               ELSE g.previous_state,
                            !.entities = g.entities,
                            !.events = {"RESTART"}]

\* Game._restart_game: everything is built again; the state machine is kept
\* and moved to INIT.  (vx, vy) is the new boss's random velocity.
restart_game(g, vx, vy) ==
    [NewGame(vx, vy) EXCEPT !.state = "INIT",
                            !.previous_state = IF g.state # "INIT" THEN g.state
                                               ELSE g.previous_state,
                            !.events = {"RESTART"}]

\* Game.handle_events for a SPACE key press
handle_space(g, vx, vy) ==
    IF g.state \in {"WIN", "GAME_OVER"}
    THEN restart_game(g, vx, vy)
    ELSE handle_space_interaction(g)


(***************************************************************************)
(* The state machine.  game is the Game object, last is the last           *)
(* operation with its inputs, ticks counts the calls of Game.update.       *)
(*                                                                         *)
(* The specifications are test drivers of the kind tests/test_game.py      *)
(* uses: Place puts the player on a free spot of a screen, the way a test  *)
(* assigns player.x, player.y and world.current_screen_id, and the         *)
(* handlers run from there.                                                *)
(***************************************************************************)

\* the number of Game.update calls a run makes: where the player walks, where
\* the player stands still, and in the boss fight
MaxTicks == 3
MaxStillTicks == 2
MaxVoidTicks == 64

\* Player.handle_input: the velocities the keys give
Velocities == {-PLAYER_SPEED, 0, PLAYER_SPEED}

NoCrawlerDraws == [e \in {} |-> NoDraw]
NoBossDraw == [corner |-> 1, vx |-> 0, vy |-> 0]
BossDraws == [corner : 1 .. 4, vx : VelocityDraws, vy : VelocityDraws]

Op(op, s, x, y, draws, r) == [op |-> op, s |-> s, x |-> x, y |-> y, draws |-> draws, r |-> r]
NoDraws == [crawler |-> NoCrawlerDraws, boss |-> NoBossDraw]

\* the crawlers of the current screen whose next update draws random values
CrawlersDrawing(g) ==
    {e \in ListIds(g.entities[g.current_screen_id]) \cap EnemyIds :
        /\ g.state \in {"EXPLORE", "ACTIVATION"}
        /\ ~at_final_gate(g)
        /\ g.enemy[e].enemy_type = "CRAWLER"
        /\ g.enemy[e].alive
        /\ IF g.enemy[e].is_paused THEN g.enemy[e].pause_timer <= 1
           ELSE g.enemy[e].move_timer <= 1}

CrawlerDrawSet(en) ==
    IF en.is_paused THEN [timer : MoveTimerDraws, dir : Direction]
    ELSE [timer : PauseTimerDraws, dir : {"NORTH"}]

\* the random values one Game.update may draw in state g
Draws(g) ==
    LET D == CrawlersDrawing(g)
        all == [timer : MoveTimerDraws \cup PauseTimerDraws, dir : Direction]
    IN  [crawler : {f \in [D -> all] : \A e \in D : f[e] \in CrawlerDrawSet(g.enemy[e])},
         boss : IF /\ g.state = "CLIMAX" /\ g.boss.alive /\ player_has_sword(g)
                   /\ ~void_update(g.boss).invulnerable
                   /\ g.boss.hits_remaining > 1
                THEN BossDraws ELSE {NoBossDraw}]

\* the random velocity a SPACE press draws (for the boss of a restart)
RestartDraws(g) ==
    IF g.state \in {"WIN", "GAME_OVER"} THEN InitDraws
    ELSE {<<0, 0>>}

\* the events of one step are those of that step only
Fresh(g) == [g EXCEPT !.events = {}]

\* the player's box at (x, y) on screen s touches no solid tile and no active
\* solid interactable: a place Player.update lets a player stand on
Standable(g, s, x, y) ==
    /\ \A c \in {<<x, y>>, <<x + PLAYER_SIZE - 1, y>>, <<x, y + PLAYER_SIZE - 1>>,
                 <<x + PLAYER_SIZE - 1, y + PLAYER_SIZE - 1>>} :
          ~is_tile_solid(s, c[1], c[2])
    /\ \A i \in 1 .. Len(g.entities[s]) :
          LET e == g.entities[s][i]
          IN  e \in InterIds /\ g.inter[e].solid /\ g.inter[e].active
              => ~colliderect(x, y, PLAYER_SIZE, PLAYER_SIZE,
                              g.inter[e].x, g.inter[e].y,
                              g.inter[e].width, g.inter[e].height)

Spot(s, x, y) == [s |-> s, x |-> x, y |-> y]

Init ==
    /\ \E v \in InitDraws : game = NewGame(v[1], v[2])
    /\ last = Op("init", None, 0, 0, NoDraws, None)
    /\ ticks = 0

\* Game.update with the keys (a velocity from V on each axis) and the random
\* draws of this call, in a run of at most max updates
Tick(V, max) ==
    /\ ticks < max
    /\ \E vx \in V, vy \in V, d \in Draws(game) :
          /\ game' = update(Fresh(game), vx, vy, d)
          /\ last' = Op("update", game.current_screen_id, vx, vy, d, None)
    /\ ticks' = ticks + 1

\* Game.handle_events with a SPACE key press
Space ==
    /\ \E v \in RestartDraws(game) :
          game' = handle_space(Fresh(game), v[1], v[2])
    /\ last' = Op("space", game.current_screen_id, game.px, game.py, NoDraws, None)
    /\ UNCHANGED ticks

\* the driver puts the player on one of the spots
Place(spots) ==
    /\ game.state \in {"EXPLORE", "ACTIVATION"}
    /\ \E p \in spots :
          /\ Standable(game, p.s, p.x, p.y)
          /\ game' = [Fresh(game) EXCEPT !.current_screen_id = p.s,
                                         !.px = p.x, !.py = p.y]
          /\ last' = Op("place", p.s, p.x, p.y, NoDraws, None)
    /\ UNCHANGED ticks


\* the driver puts the player at (x, y) of a screen, on a free spot or not
PlaceAt(spots) ==
    /\ game.state \in {"EXPLORE", "ACTIVATION"}
    /\ \E p \in spots :
          /\ game' = [Fresh(game) EXCEPT !.current_screen_id = p.s,
                                         !.px = p.x, !.py = p.y]
          /\ last' = Op("place", p.s, p.x, p.y, NoDraws, None)
    /\ UNCHANGED ticks

(***************************************************************************)
(* Screen.is_tile_solid on its own                                         *)
(***************************************************************************)

QueryXs == {-17, -16, -1, 0, 15, 16, 31, 32, 47, 48, 111, 112, 143, 144, 159, 160, 175, 176}
QueryYs == {-17, -16, -1, 0, 15, 16, 31, 32, 95, 96, 159, 160, 175, 176, 191, 192, 207, 208}

\* one call of Screen.is_tile_solid(x, y) on screen s
Query ==
    /\ last.op = "init"
    /\ \E s \in ScreenID, x \in QueryXs, y \in QueryYs :
          last' = Op("is_tile_solid", s, x, y, NoDraws, is_tile_solid(s, x, y))
    /\ UNCHANGED <<game, ticks>>

SpecTile == Init /\ [][Query]_vars

(***************************************************************************)
(* The screen transition of Game.update                                    *)
(***************************************************************************)

\* positions off each edge of the screen, and two that are not off any
ExitPositions ==
    {<<NATIVE_WIDTH + 1, 88>>, <<NATIVE_WIDTH + 1, 20>>, <<-PLAYER_SIZE - 1, 88>>,
     <<-PLAYER_SIZE - 1, 150>>, <<72, -PLAYER_SIZE - 1>>, <<30, -PLAYER_SIZE - 1>>,
     <<72, NATIVE_HEIGHT + 1>>, <<120, NATIVE_HEIGHT + 1>>,
     <<-PLAYER_SIZE - 1, -PLAYER_SIZE - 1>>, <<NATIVE_WIDTH + 1, NATIVE_HEIGHT + 1>>,
     <<NATIVE_WIDTH, 88>>, <<-PLAYER_SIZE, 88>>}

ExitSpots == {Spot(s, p[1], p[2]) : s \in ScreenID, p \in ExitPositions}

\* the first update, which starts the game
TickInit == game.state = "INIT" /\ Tick({0}, MaxTicks)
\* the driver moves the player off the screen after an update or a transition
PlaceOutside == last.op \in {"update", "transition"} /\ PlaceAt(ExitSpots)

\* lines 557-591 of Game.update on the current position; last.r is the
\* direction Camera.check_screen_transition reported
Transition ==
    /\ game.state \in {"EXPLORE", "ACTIVATION"}
    /\ game' = screen_transition(Fresh(game))
    /\ last' = Op("transition", game.current_screen_id, game.px, game.py, NoDraws,
                  check_screen_transition(game.px, game.py, PLAYER_SIZE, PLAYER_SIZE))
    /\ UNCHANGED ticks

SpecTransition == Init /\ [][TickInit \/ PlaceOutside \/ Transition]_vars


(***************************************************************************)
(* Items, crystals and pedestals                                           *)
(***************************************************************************)

\* free spots next to the four crystals and the bomb, on the toxic basin and
\* in front of the silver gate: where the driver goes with empty hands
PickSpots ==
    {Spot("GARDENS_4", 64, 76), Spot("CATACOMBS_4", 60, 80), Spot("RUINS_3", 88, 96),
     Spot("CLIFFS_4", 60, 80), Spot("CATACOMBS_2", 48, 80),
     Spot("RUINS_3", 60, 80), Spot("TOWER_HUB", 64, 16)}

\* free spots next to the four pedestals and the cracked wall: where the
\* driver carries an item
CarrySpots ==
    {Spot("TOWER_HUB", 48, 24), Spot("TOWER_HUB", 96, 24), Spot("TOWER_HUB", 48, 152),
     Spot("TOWER_HUB", 96, 152), Spot("CATACOMBS_4", 80, 40)}

\* where the driver drops what the player holds, and where it walks the
\* player into the toxic basin with it
DropSpots == {Spot("TOWER_HUB", 48, 24)}
DeathSpots == {Spot("RUINS_3", 60, 80)}

\* a place off the east edge of the hub, which leads on to CATACOMBS_1
ItemExits == {Spot("TOWER_HUB", NATIVE_WIDTH + 1, 88)}

\* an item lies in a list away from the place it was created at
Astray(g) ==
    \E i \in ItemIds, s \in ScreenID :
        /\ i \in ListIds(g.entities[s])
        /\ <<g.item[i].x, g.item[i].y>> # <<SpawnedItems[i].x, SpawnedItems[i].y>>

\* no crystal has been picked up yet
Untouched(g) ==
    \A i \in ItemIds :
        SpawnedItems[i].item_type \in CrystalTypes => g.item[i] = SpawnedItems[i]

BombSpots == {Spot("CATACOMBS_2", 48, 80)}

\* the driver leaves at most one item lying about, and fetches the bomb
\* before any crystal
DriverSpots(g) ==
    IF g.held_item = None
    THEN IF Untouched(g) /\ ~Astray(g) THEN PickSpots ELSE PickSpots \ BombSpots
    ELSE IF Astray(g) THEN CarrySpots
    ELSE CarrySpots \cup DeathSpots

\* the driver lets an update pass to start the game, on the basin, in front
\* of the open gate and during the boss fight
LetsTimePass(g) ==
    \/ g.state \in {"INIT", "CLIMAX", "WIN"}
    \/ at_final_gate(g)
    \/ Spot(g.current_screen_id, g.px, g.py) \in DeathSpots

TickStill == LetsTimePass(game) /\ Tick({0}, MaxStillTicks)

\* lines 557-591 of Game.update for a player who is off the screen
TransitionOut ==
    /\ check_screen_transition(game.px, game.py, PLAYER_SIZE, PLAYER_SIZE) # None
    /\ Transition
PlaceItems == Place(DriverSpots(game))
PlaceExit == game.held_item # None /\ last.op = "space" /\ PlaceAt(ItemExits)

\* the driver presses SPACE with an empty slot, with a use for the held item
\* in reach, or on a drop spot
PressesSpace(g) ==
    IF g.held_item = None THEN TRUE
    ELSE IF g.state \notin {"EXPLORE", "ACTIVATION", "CLIMAX"} THEN TRUE
    ELSE IF use_item_loop(g, 1).interacted THEN TRUE
    ELSE Spot(g.current_screen_id, g.px, g.py) \in DropSpots /\ ~Astray(g)

SpaceItems == PressesSpace(game) /\ Space

SpecItems == Init /\ [][TickStill \/ SpaceItems \/ PlaceItems \/ PlaceExit \/ TransitionOut]_vars

(***************************************************************************)
(* Combat                                                                  *)
(***************************************************************************)

\* free spots next to the sword, between the two chasers of CATACOMBS_3, on
\* the chaser of CATACOMBS_2, on a crawler, on a sentinel and on the basin
CombatSpots ==
    {Spot("TOWER_HUB", 96, 36), Spot("CATACOMBS_3", 75, 70), Spot("CATACOMBS_2", 100, 90),
     Spot("GARDENS_2", 40, 48), Spot("CLIFFS_2", 40, 30), Spot("RUINS_3", 60, 80)}

TickAny == Tick(Velocities, MaxTicks)
\* the driver puts the player on a spot after the first update and lets the
\* game run from there
PlaceCombat == ticks = 1 /\ Place(CombatSpots)

\* SPACE pressed with an empty slot
SpacePickup == game.held_item = None /\ Space

Spec == Init /\ [][TickAny \/ SpacePickup \/ PlaceCombat]_vars

(***************************************************************************)
(* The boss on its own                                                     *)
(***************************************************************************)

\* TheVoid.update, as every update of the boss fight calls it
VoidUpdate ==
    /\ ticks < MaxVoidTicks
    /\ last.op \in {"init", "take_hit"}
    /\ game.boss.alive
    /\ game' = [Fresh(game) EXCEPT !.boss = void_update(@)]
    /\ last' = Op("void_update", game.current_screen_id, game.px, game.py, NoDraws, None)
    /\ ticks' = ticks + 1

\* lines 618-628 of Game.update after it: the sword touches the boss on every
\* update; last.r is what take_hit returned
SwordHit ==
    /\ last.op = "void_update"
    /\ \E d \in (IF game.boss.invulnerable \/ game.boss.hits_remaining <= 1
                 THEN {NoBossDraw} ELSE BossDraws) :
          /\ game' = sword_hit(Fresh(game), d)
          /\ last' = Op("take_hit", game.current_screen_id, game.px, game.py,
                        [crawler |-> NoCrawlerDraws, boss |-> d],
                        take_hit(game.boss, game.px, game.py, d).defeated)
    /\ UNCHANGED ticks

SpecVoid == Init /\ [][VoidUpdate \/ SwordHit]_vars

(***************************************************************************)
(* Properties                                                              *)
(***************************************************************************)

\* the tile index of pixel coordinate v: the t with 16 t <= v < 16 (t + 1)
TileIndex(v) == CHOOSE t \in -3 .. 14 : TILE_SIZE * t <= v /\ v < TILE_SIZE * (t + 1)

\* C1: Screen.is_tile_solid(x, y) returns true for every pixel coordinate
\* whose tile index (floor(x/16), floor(y/16)) lies outside the 10x12 grid,
\* negative coordinates included, and the stored cell value otherwise.
C1_TileSolidOutOfBounds ==
    last.op = "is_tile_solid" =>
        LET tx == TileIndex(last.x)
            ty == TileIndex(last.y)
        IN  IF tx \in 0 .. 9 /\ ty \in 0 .. 11
            THEN last.r = tiles[last.s][ty][tx]
            ELSE last.r = TRUE

\* a query left of and above the grid whose wrapped-around cell is passable
C1_Witness ==
    /\ last.op = "is_tile_solid"
    /\ last.x < 0
    /\ last.y < 0
    /\ last.r = TRUE
    /\ ~tiles[last.s][TileIndex(last.y) % Rows][TileIndex(last.x) % Cols]

\* the place the claim of C6 names for a player who left through direction d
ClaimedSpawn(d) ==
    CASE d = "EAST"  -> <<8, NATIVE_HEIGHT \div 2 - PLAYER_SIZE \div 2>>
      [] d = "WEST"  -> <<NATIVE_WIDTH - PLAYER_SIZE - 8, NATIVE_HEIGHT \div 2 - PLAYER_SIZE \div 2>>
      [] d = "SOUTH" -> <<NATIVE_WIDTH \div 2 - PLAYER_SIZE \div 2, 8>>
      [] d = "NORTH" -> <<NATIVE_WIDTH \div 2 - PLAYER_SIZE \div 2, NATIVE_HEIGHT - PLAYER_SIZE - 8>>

C7_UnconnectedIgnored ==
    (last.op = "transition" /\ last.r # None /\ get_connection(last.s, last.r) = None)
        => /\ game.current_screen_id = last.s
           /\ game.px = last.x
           /\ game.py = last.y
           /\ "SCREEN" \notin game.events

\* an attempt to leave a screen through an edge that leads nowhere
C7_Witness ==
    /\ last.op = "transition"
    /\ last.r = "EAST"
    /\ last.s = "GARDENS_1"
    /\ get_connection(last.s, last.r) = None
    /\ game.current_screen_id = "GARDENS_1"


\* C3: the boss starts with hits_remaining = 3; take_hit takes exactly 1 off
\* when the boss is not invulnerable and leaves the counter alone, reporting
\* no defeat, when it is; defeat is reported exactly by the accepted hit that
\* brings the counter from 1 to 0, the third, and TheVoid.update never
\* changes the counter.
C3_BossHits ==
    /\ (last.op = "init" => game.boss.hits_remaining = 3)
    /\ [][/\ last'.op = "take_hit" =>
               /\ IF game.boss.invulnerable
                  THEN game'.boss.hits_remaining = game.boss.hits_remaining /\ last'.r = FALSE
                  ELSE game'.boss.hits_remaining = game.boss.hits_remaining - 1
               /\ last'.r = TRUE <=> (~game.boss.invulnerable /\ game.boss.hits_remaining = 1)
               /\ last'.r = TRUE <=> game'.boss_defeated
               /\ game'.boss.hits_remaining \in 0 .. 3
          /\ last'.op = "void_update" =>
               game'.boss.hits_remaining = game.boss.hits_remaining]_vars

\* the third accepted hit, after hits the invulnerable boss shrugged off
C3_Witness ==
    /\ last.op = "take_hit"
    /\ last.r = TRUE
    /\ game.boss.hits_remaining = 0
    /\ game.boss_defeated
    /\ ticks > 2 * INVULNERABLE_TIME

AllPlaced(g) == \A c \in CrystalTypes : g.crystals_placed[c]

\* C2: all_crystals_placed is false while fewer than four crystal flags are
\* true and becomes true in the action that sets the fourth; that action, and
\* no other, requests the transition to ACTIVATION; and short of a restart no
\* step sets all_crystals_placed or a crystal flag back to false.
C2_CrystalTracker ==
    [][/\ game'.all_crystals_placed <=> AllPlaced(game')
       /\ "ACTIVATION" \in game'.events
             <=> (~game.all_crystals_placed /\ game'.all_crystals_placed)
       /\ "ACTIVATION" \in game'.events => game'.state = "ACTIVATION"
       /\ "RESTART" \notin game'.events =>
             /\ \A c \in CrystalTypes : game.crystals_placed[c] => game'.crystals_placed[c]
             /\ game.all_crystals_placed => game'.all_crystals_placed]_vars

\* the fourth crystal has just been placed
C2_Witness ==
    /\ game.all_crystals_placed
    /\ AllPlaced(game)
    /\ "ACTIVATION" \in game.events
    /\ game.state = "ACTIVATION"

\* the index of the first item of list within pickup range of the player, 0
\* if there is none
FirstNearItem(g) ==
    LET list == g.entities[g.current_screen_id]
        near == {i \in 1 .. Len(list) :
                    list[i] \in ItemIds /\ item_is_near_player(g.item[list[i]], g.px, g.py)}
    IN  IF near = {} THEN 0 ELSE CHOOSE i \in near : \A j \in near : i <= j

\* C4: when SPACE is pressed in EXPLORE, ACTIVATION or CLIMAX with an empty
\* slot and an item other than the ring within its pickup radius (the first
\* such item of the list), the slot becomes that item and the item leaves the
\* current screen's list, which gets shorter by exactly 1; and a press with an
\* item in the slot never puts another item into the slot.
C4_Pickup ==
    [][(last'.op = "space" /\ game.state \in {"EXPLORE", "ACTIVATION", "CLIMAX"}) =>
          LET s == game.current_screen_id
              list == game.entities[s]
              i == FirstNearItem(game)
          IN  /\ (game.held_item = None /\ i # 0
                    /\ game.item[list[IF i = 0 THEN 1 ELSE i]].item_type # "RING_OF_ETERNITY")
                  => /\ game'.held_item = list[i]
                     /\ list[i] \notin ListIds(game'.entities[s])
                     /\ Len(game'.entities[s]) = Len(list) - 1
              /\ game.held_item # None => game'.held_item \in {game.held_item, None}]_vars

\* an item has just been picked up
C4_Witness ==
    /\ last.op = "space"
    /\ "PICKUP" \in game.events
    /\ game.held_item \in ItemIds

\* how many times item i appears in list
RECURSIVE Count(_, _)
Count(list, i) ==
    IF list = <<>> THEN 0
    ELSE (IF Head(list) = i THEN 1 ELSE 0) + Count(Tail(list), i)

RECURSIVE SumOver(_, _, _)
SumOver(g, S, i) ==
    IF S = {} THEN 0
    ELSE LET s == CHOOSE s \in S : TRUE
         IN  Count(g.entities[s], i) + SumOver(g, S \ {s}, i)

\* C5: no item is at once in the player's slot and in a screen's entity list,
\* and no item is in more than one list or more than once in a list.
C5_ItemOwnership ==
    \A i \in ItemIds :
        SumOver(game, ScreenID, i) + (IF game.held_item = i THEN 1 ELSE 0) <= 1

\* the player has died with an item, which now lies where the player died
C5_Witness ==
    /\ "DEATH" \in game.events
    /\ game.held_item = None
    /\ \E i \in ItemIds :
          /\ i \in ListIds(game.entities["RUINS_3"])
          /\ <<game.item[i].x, game.item[i].y>> = <<60, 80>>


\* the game of an update in EXPLORE or ACTIVATION when the combat pass starts:
\* the player and the enemies have moved
BeforeCombat(g, op) ==
    LET s == g.current_screen_id
    IN  update_npcs(update_enemies(player_update(Fresh(g), op.x, op.y), s, op.draws), s)

InCombatPass(g, op) ==
    op.op = "update" /\ g.state \in {"EXPLORE", "ACTIVATION"} /\ ~at_final_gate(g)

InSomeList(g, e) == \E s \in ScreenID : e \in ListIds(g.entities[s])

\* C8: in a combat pass a living enemy that is not immune to the sword and
\* overlaps a player who holds the sword is marked not alive and removed from
\* the current screen's list, the player is not killed, and an enemy that is
\* not alive is in no list and stays so until a restart.
C8_SwordKills ==
    [][/\ InCombatPass(game, last') =>
             LET g == BeforeCombat(game, last')
                 s == game.current_screen_id
             IN  \A e \in ListIds(g.entities[s]) \cap EnemyIds :
                    (/\ player_has_sword(g)
                     /\ g.enemy[e].alive
                     /\ ~g.enemy[e].immune_to_sword
                     /\ is_colliding_with_player(g.enemy[e], g.px, g.py))
                    => /\ ~game'.enemy[e].alive
                       /\ ~InSomeList(game', e)
                       /\ "DEATH" \notin game'.events
       /\ "RESTART" \notin game'.events =>
             \A e \in EnemyIds :
                ~game.enemy[e].alive => ~game'.enemy[e].alive /\ ~InSomeList(game', e)]_vars

Sentinels == {e \in EnemyIds : SpawnedEnemies[e].enemy_type = "SENTINEL"}

\* C9: every Sentinel is alive and in the entity list of its screen in every
\* reachable state, and a player who overlaps a Sentinel in a combat pass
\* dies, with the sword or without.
C9_SentinelImmune ==
    /\ [](\A e \in Sentinels :
             /\ game.enemy[e].alive
             /\ \A s \in ScreenID :
                   e \in ListIds(game.entities[s]) <=> e \in ListIds(InitialEntities[s]))
    /\ [][InCombatPass(game, last') =>
             LET g == BeforeCombat(game, last')
                 s == game.current_screen_id
             IN  (\E e \in ListIds(g.entities[s]) \cap Sentinels :
                     is_colliding_with_player(g.enemy[e], g.px, g.py))
                 => "DEATH" \in game'.events]_vars

\* the player has died on a Sentinel with the sword in hand
C9_Witness ==
    /\ "DEATH" \in game.events
    /\ last.op = "update"
    /\ last.s = "CLIFFS_2"
    /\ "sword" \in ListIds(game.entities["CLIFFS_2"])
    /\ game.enemy["sentinel_cl2"].alive

MaxStoryTicks == 70

CrystalSpots ==
    {Spot("GARDENS_4", 64, 76), Spot("CATACOMBS_4", 60, 80), Spot("RUINS_3", 88, 96),
     Spot("CLIFFS_4", 60, 80)}
PedestalSpots ==
    {Spot("TOWER_HUB", 48, 24), Spot("TOWER_HUB", 96, 24), Spot("TOWER_HUB", 48, 152),
     Spot("TOWER_HUB", 96, 152)}
SwordSpots == {Spot("TOWER_HUB", 96, 36)}
GateSpots == {Spot("TOWER_HUB", 64, 16)}
\* in the final chamber: below the boss's range, and on the ring
SafeSpots == {Spot("FINAL_CHAMBER", 72, 160)}
RingSpots == {Spot("FINAL_CHAMBER", 72, 88)}

\* an item of screen p.s is within pickup range of a player on spot p
ItemAt(g, p) ==
    \E i \in ListIds(g.entities[p.s]) \cap ItemIds : item_is_near_player(g.item[i], p.x, p.y)

\* where the driver goes in EXPLORE and ACTIVATION: to a crystal or into the
\* toxic basin (before anything else) with empty hands, to the pedestals
\* with a crystal, to the sword when the gate is open and to the gate with
\* the sword
StorySpots(g) ==
    IF g.held_item = None
    THEN IF g.all_crystals_placed THEN SwordSpots
         ELSE {p \in CrystalSpots : ItemAt(g, p)}
              \cup (IF Untouched(g) /\ "DEATH" \notin g.events THEN DeathSpots ELSE {})
    ELSE IF g.held_item = "sword" THEN GateSpots
    ELSE PedestalSpots

\* where the driver goes in the boss fight: onto the boss when a hit counts,
\* out of the way after a hit, to the ring when the boss is gone
ClimaxSpots(g) ==
    IF g.current_screen_id # "FINAL_CHAMBER" THEN {}
    ELSE IF ~g.boss.alive THEN RingSpots
    ELSE IF g.boss.invulnerable
         THEN (IF g.boss.invulnerable_timer = INVULNERABLE_TIME THEN SafeSpots ELSE {})
    ELSE {Spot("FINAL_CHAMBER", Px(g.boss.x), Px(g.boss.y))}

StoryPlace ==
    /\ last.op \in {"update", "space"}
    /\ Place(StorySpots(game))

\* the driver moves the player inside the final chamber
StoryPlaceClimax ==
    /\ game.state = "CLIMAX"
    /\ last.op = "update"
    /\ \E p \in ClimaxSpots(game) :
          /\ Standable(game, p.s, p.x, p.y)
          /\ game' = [Fresh(game) EXCEPT !.px = p.x, !.py = p.y]
          /\ last' = Op("place", p.s, p.x, p.y, NoDraws, None)
    /\ UNCHANGED ticks

\* the driver lets an update pass to start the game, in the basin, in the
\* open gate, during the boss fight and after the victory
\* the driver has somewhere to go in the boss fight
CanMove(g) == \E p \in ClimaxSpots(g) : Standable(g, p.s, p.x, p.y)

StoryTick ==
    /\ \/ game.state = "INIT"
       \/ /\ game.state = "CLIMAX"
          /\ last.op = "place" \/ game.boss.invulnerable \/ ~CanMove(game)
       \/ game.state = "WIN" /\ game.victory_timer < MaxVictoryTimer
       \/ at_final_gate(game)
       \/ /\ last.op = "place"
          /\ Spot(game.current_screen_id, game.px, game.py) \in DeathSpots
    /\ Tick({0}, MaxStoryTicks)

\* SPACE where the driver has put the player, with empty hands or a use for
\* the held item; on the ring, to put the sword down and take the ring; once
\* before the first update of a game; and after the victory
StorySpace ==
    /\ \/ /\ last.op = "place"
          /\ IF game.held_item = None THEN TRUE ELSE use_item_loop(game, 1).interacted
       \/ game.state = "CLIMAX" /\ ~game.boss.alive /\ last.op \in {"place", "space"}
       \/ game.state = "INIT" /\ (last.op = "init" \/ "RESTART" \in game.events)
       \/ game.state = "WIN" /\ last.op = "update"
    /\ Space

SpecStory == Init /\ [][StoryTick \/ StorySpace \/ StoryPlace \/ StoryPlaceClimax]_vars


\* C11: in no reachable state is the GameState GAME_OVER or COLLECTION,
\* whatever updates, SPACE presses, deaths and restarts came before.
C11_NoGameOver == game.state \notin {"GAME_OVER", "COLLECTION"}

\* the player has died in the boss fight, and the game goes on
C11_Witness ==
    /\ "DEATH" \in game.events
    /\ game.state = "CLIMAX"
    /\ game.current_screen_id = "TOWER_HUB"


\* the fourth crystal is placed in the step from g to h
FourthCrystal(g, h) ==
    /\ \E c \in CrystalTypes : ~g.crystals_placed[c] /\ h.crystals_placed[c]
    /\ \A c \in CrystalTypes : h.crystals_placed[c]

\* C12: a new game starts in INIT, and the GameState changes only from INIT
\* to EXPLORE (by the first update), from EXPLORE to ACTIVATION (by the SPACE
\* press that places the fourth crystal), from ACTIVATION to CLIMAX (by the
\* update that enters the final chamber), from CLIMAX to WIN (by the SPACE
\* press that takes the ring) and from WIN to INIT (by the restart).
C12_StateChanges ==
    /\ game.state = "INIT"
    /\ [][game'.state # game.state =>
            \/ /\ game.state = "INIT" /\ game'.state = "EXPLORE"
               /\ last'.op = "update"
            \/ /\ game.state = "EXPLORE" /\ game'.state = "ACTIVATION"
               /\ last'.op = "space"
               /\ FourthCrystal(game, game')
            \/ /\ game.state = "ACTIVATION" /\ game'.state = "CLIMAX"
               /\ last'.op = "update"
               /\ game'.current_screen_id = "FINAL_CHAMBER"
            \/ /\ game.state = "CLIMAX" /\ game'.state = "WIN"
               /\ last'.op = "space"
               /\ "ring" \in ListIds(game.entities[game.current_screen_id])
               /\ \A s \in ScreenID : "ring" \notin ListIds(game'.entities[s])
            \/ /\ game.state = "WIN" /\ game'.state = "INIT"
               /\ last'.op = "space"
               /\ "RESTART" \in game'.events]_vars

\* the five changes have happened in a row: the game is in INIT again, coming
\* from WIN
C12_Witness ==
    /\ game.state = "INIT"
    /\ game.previous_state = "WIN"
    /\ ticks > 2 * INVULNERABLE_TIME


\* C13: a SPACE press with an empty slot and the ring within pickup range
\* sets the GameState to WIN in that same step, removes the ring from the
\* screen's list and leaves the slot empty.
C13_RingWins ==
    [][(/\ last'.op = "space"
        /\ game.state \in {"EXPLORE", "ACTIVATION", "CLIMAX"}
        /\ game.held_item = None
        /\ "ring" \in ListIds(game.entities[game.current_screen_id])
        /\ item_is_near_player(game.item["ring"], game.px, game.py))
       => /\ game'.state = "WIN"
          /\ \A s \in ScreenID : "ring" \notin ListIds(game'.entities[s])
          /\ game'.held_item = None]_vars

\* the ring has just been taken
C13_Witness ==
    /\ last.op = "space"
    /\ "VICTORY" \in game.events
    /\ game.state = "WIN"
    /\ game.held_item = None
    /\ ~game.item["ring"].active


\* C14: a SPACE press restarts the game only in WIN or GAME_OVER and changes
\* nothing in INIT; after a restart the GameState is INIT, the four crystal
\* flags, all_crystals_placed and boss_defeated are false, the boss has 3 hits
\* left, the current screen is TOWER_HUB, the player is at the spawn point
\* with an empty slot, and every screen holds the entities of a new game.
C14_Restart ==
    [][/\ "RESTART" \in game'.events =>
             last'.op = "space" /\ game.state \in {"WIN", "GAME_OVER"}
       /\ (last'.op = "space" /\ game.state = "INIT") => game' = Fresh(game)
       /\ (last'.op = "space" /\ game.state \in {"WIN", "GAME_OVER"}) =>
             /\ game'.state = "INIT"
             /\ \A c \in CrystalTypes : ~game'.crystals_placed[c]
             /\ ~game'.all_crystals_placed
             /\ ~game'.boss_defeated
             /\ game'.boss.hits_remaining = 3
             /\ game'.boss.alive
             /\ game'.current_screen_id = "TOWER_HUB"
             /\ <<game'.px, game'.py>> = <<SpawnX, SpawnY>>
             /\ game'.held_item = None
             /\ game'.entities = InitialEntities
             /\ game'.item = SpawnedItems
             /\ game'.inter = SetupInteractables
             /\ game'.enemy = SpawnedEnemies
             /\ game'.cat = NewCat]_vars

\* the game has been restarted after a victory: the hub holds its crystals'
\* pedestals empty again and the final chamber its boss
C14_Witness ==
    /\ last.op = "space"
    /\ "RESTART" \in game.events
    /\ game.previous_state = "WIN"
    /\ game.entities["FINAL_CHAMBER"] = <<"void">>
    /\ ~game.inter["pedestal_green"].has_crystal


(***************************************************************************)
(* Interactable.interact on its own                                        *)
(***************************************************************************)

\* the item the driver hands to the player
TestItem == "gold_key"

\* the interactables the driver uses it on: one of every subclass
TestedInters ==
    {"pedestal_green", "gold_gate", "fountain", "soft_dirt", "chasm", "cracked_wall",
     "toxic_basin", "blessed_spring", "statue"}

\* create_item(t, ...) and Player.pick_up_item: the player is given a new
\* item of type t
GiveItem ==
    /\ game.state # "INIT"
    /\ last.op # "give"
    /\ \E t \in ItemType :
          /\ game' = [Fresh(game) EXCEPT
                        !.item[TestItem] = [create_item(t, game.px, game.py)
                                               EXCEPT !.active = FALSE],
                        !.held_item = TestItem,
                        !.entities = [s \in ScreenID |-> ListRemove(@[s], TestItem)]]
          /\ last' = Op("give", None, 0, 0, NoDraws, t)
    /\ UNCHANGED ticks

\* entity.interact(held_item) for an interactable e, and what lines 372-452
\* of Game.handle_space_interaction do with a truthy result; last.s is e and
\* last.r the result
InteractCall ==
    /\ game.held_item = TestItem
    /\ \E e \in TestedInters :
          LET r == interact(Fresh(game), e, TestItem)
          IN  /\ game' = IF r.result # None THEN apply_interaction(r.g, e, r.result)
                         ELSE r.g
              /\ last' = Op("interact", e, 0, 0, NoDraws, r.result)
    /\ UNCHANGED ticks

SpecInteract == Init /\ [][TickInit \/ GiveItem \/ InteractCall]_vars


\* C15: for an interactable whose is_activated flag is true, interact(item)
\* yields the NONE outcome for every item and changes neither the
\* interactable nor the item.
C15_ActivatedYieldsNone ==
    [][(last'.op = "interact" /\ game.inter[last'.s].is_activated)
       => /\ last'.r = None
          /\ game'.inter = game.inter
          /\ game'.item = game.item
          /\ game'.held_item = game.held_item]_vars

\* the item an interactable asks for has been offered to it after it was
\* activated
C15_Witness ==
    /\ last.op = "interact"
    /\ last.r = None
    /\ \E e \in {"toxic_basin", "statue", "pedestal_green", "gold_gate", "cracked_wall"} :
          /\ last.s = e
          /\ game.inter[e].is_activated
          /\ game.item[TestItem].item_type = game.inter[e].requires_item


\* a SoftDirt that holds an acorn is offered a full watering can
WatersAcorn(g, e) ==
    /\ g.inter[e].kind = "SoftDirt"
    /\ g.inter[e].has_acorn
    /\ g.item[TestItem].item_type = "WATERING_CAN_FULL"

\* C16: for every interactable and every item whose type differs from the
\* interactable's requires_item, interact(item) yields the NONE outcome and
\* changes neither the interactable nor the item; SoftDirt offered any item
\* but an acorn is one such case.
C16_WrongItemYieldsNone ==
    [][(/\ last'.op = "interact"
        /\ game.item[TestItem].item_type # game.inter[last'.s].requires_item)
       => /\ last'.r = None
          /\ game'.inter = game.inter
          /\ game'.item = game.item
          /\ game'.held_item = game.held_item]_vars

\* C16, amended: the same, but for a SoftDirt that holds an acorn and is
\* offered a full watering can: that yields GROW_TREE and leaves the
\* SoftDirt as it is.
C16_WrongItemUnlessWatered ==
    [][(/\ last'.op = "interact"
        /\ game.item[TestItem].item_type # game.inter[last'.s].requires_item)
       => IF WatersAcorn(game, last'.s)
          THEN /\ last'.r = "grow_tree"
               /\ game'.inter[last'.s] = game.inter[last'.s]
          ELSE /\ last'.r = None
               /\ game'.inter = game.inter
               /\ game'.item = game.item
               /\ game'.held_item = game.held_item]_vars

\* a SoftDirt without an acorn has been offered a full watering can, and a
\* gate the other gate's key
C16_Witness ==
    /\ last.op = "interact"
    /\ last.r = None
    /\ \/ /\ last.s = "soft_dirt"
          /\ ~game.inter["soft_dirt"].has_acorn
          /\ game.item[TestItem].item_type = "WATERING_CAN_FULL"
       \/ /\ last.s = "gold_gate"
          /\ ~game.inter["gold_gate"].is_activated
          /\ game.item[TestItem].item_type = "SILVER_KEY"


(***************************************************************************)
(* The chalice, the blessed spring and the toxic basin                     *)
(***************************************************************************)

MaxBasinTicks == 5

\* free spots next to the chalice, next to the blessed spring, beside the
\* toxic basin (in reach of it, not touching it) and on the basin
ChaliceSpots == {Spot("RUINS_2", 64, 64)}
SpringSpots == {Spot("RUINS_4", 60, 80)}
BasinSides == {Spot("RUINS_3", 44, 88)}
BasinSpots(g) ==
    IF g.held_item = None
    THEN ChaliceSpots \cup BasinSides \cup DeathSpots
    ELSE SpringSpots \cup BasinSides \cup DeathSpots

\* the keys of the walk beside the basin: none, or right and down
BasinKeys == {0, PLAYER_SPEED}

BasinPlace == last.op \in {"update", "space"} /\ Place(BasinSpots(game))

\* the driver lets an update pass to start the game, and on the basin screen
BasinTick ==
    /\ game.state = "INIT" \/ game.current_screen_id = "RUINS_3"
    /\ Tick(IF game.state = "INIT" THEN {0} ELSE BasinKeys, MaxBasinTicks)

\* SPACE once the player stands where an update left or could have left
\* them: not in a basin that is still deadly
BasinSpace ==
    /\ last.op \in {"place", "update"}
    /\ game.state # "INIT"
    /\ ~touches_deadly(game, game.current_screen_id)
    /\ Space

SpecBasin == Init /\ [][BasinTick \/ BasinSpace \/ BasinPlace]_vars

\* the player's box overlaps the toxic basin of the current screen
OnBasin(g) ==
    /\ "toxic_basin" \in ListIds(g.entities[g.current_screen_id])
    /\ colliderect(g.inter["toxic_basin"].x, g.inter["toxic_basin"].y,
                   g.inter["toxic_basin"].width, g.inter["toxic_basin"].height,
                   g.px, g.py, PLAYER_SIZE, PLAYER_SIZE)

\* SPACE with a filled chalice in reach of the basin, which is not activated
UsesFilledChalice(g) ==
    /\ g.state \in {"EXPLORE", "ACTIVATION", "CLIMAX"}
    /\ g.held_item # None
    /\ g.item[g.held_item].item_type = "CHALICE_FILLED"
    /\ "toxic_basin" \in ListIds(g.entities[g.current_screen_id])
    /\ ~g.inter["toxic_basin"].is_activated
    /\ inter_is_near_player(g.inter["toxic_basin"], g.px, g.py)

\* C17: SPACE with CHALICE_FILLED in reach of a toxic basin that is not yet
\* activated cleanses it: the basin is activated, not deadly and not active,
\* the slot is empty and the chalice is in no screen's list; from then on the
\* basin stays so, and an update that leaves the player on it is not a death.
C17_BasinCleansed ==
    [][/\ (last'.op = "space" /\ UsesFilledChalice(game))
          => /\ game'.inter["toxic_basin"] =
                    [game.inter["toxic_basin"] EXCEPT !.is_activated = TRUE,
                                                      !.deadly = FALSE,
                                                      !.active = FALSE]
             /\ game'.held_item = None
             /\ ~InSomeList(game', game.held_item)
       /\ game.inter["toxic_basin"].is_activated
          => /\ game'.inter["toxic_basin"] = game.inter["toxic_basin"]
             /\ ~game'.inter["toxic_basin"].deadly
             /\ (last'.op = "update" /\ last'.s = "RUINS_3")
                   => "DEATH" \notin game'.events
      ]_vars

\* an update has left the player standing on the cleansed basin
C17_Witness ==
    /\ last.op = "update"
    /\ game.inter["toxic_basin"].is_activated
    /\ OnBasin(game)
    /\ game.state = "EXPLORE"
    /\ game.held_item = None
    /\ \A i \in ItemIds : game.item[i].item_type = "CHALICE_FILLED" => ~InSomeList(game, i)


(***************************************************************************)
(* The patrol of the sentinels                                             *)
(***************************************************************************)

\* the screen a sentinel is spawned on
SentinelScreen(e) == CHOOSE s \in ScreenID : e \in ListIds(InitialEntities[s])

\* free spots of the two patrolled screens that no patrol route touches
WatchSpots == {Spot("CLIFFS_2", 72, 88), Spot("CLIFFS_3", 24, 152)}

\* the driver brings the player from the hub to one of the patrolled
\* screens, where they stay
WatchPlace == game.current_screen_id = "TOWER_HUB" /\ last.op = "update" /\ Place(WatchSpots)

\* Game.update for a player who presses no key, any number of times
WatchTick ==
    /\ \E d \in Draws(game) :
          /\ game' = update(Fresh(game), 0, 0, d)
          /\ last' = Op("update", game.current_screen_id, 0, 0, d, None)
    /\ UNCHANGED ticks

SpecSentinel == Init /\ [][WatchTick \/ WatchPlace]_vars

\* an update on a patrolled screen changes the state: the sentinel moves or
\* turns to its next waypoint
Patrolled(g) == g.current_screen_id \in {SentinelScreen(e) : e \in Sentinels}

\* the main loop calls Game.update once a frame, for ever: weak fairness of
\* WatchTick, WF_vars(WatchTick), with Patrolled for ENABLED <<WatchTick>>_vars
LiveSentinel ==
    SpecSentinel /\ ([]<>(~Patrolled(game)) \/ []<><<WatchTick>>_vars)

\* the sentinel is within 5 pixels of the waypoint it is heading for
AtTarget(en) ==
    LET target == en.waypoints[en.current_waypoint + 1]
        dx == target[1] * SUB - en.x
        dy == target[2] * SUB - en.y
    IN  dx * dx + dy * dy < (5 * SUB) * (5 * SUB)

\* C18: a living sentinel with waypoints always has 0 <= current_waypoint <
\* len(waypoints); the index changes only to (index + 1) mod len, and only in
\* an update that finds the sentinel within 5 pixels of its target; unless the
\* player leaves the sentinel's screen for good (it is updated no more), every
\* waypoint is its target infinitely often.
C18_SentinelPatrol ==
    /\ [](\A e \in Sentinels :
             game.enemy[e].alive /\ game.enemy[e].waypoints # <<>>
             => game.enemy[e].current_waypoint \in 0 .. Len(game.enemy[e].waypoints) - 1)
    /\ [][\A e \in Sentinels :
             game'.enemy[e].current_waypoint # game.enemy[e].current_waypoint
             => /\ game'.enemy[e].current_waypoint =
                      (game.enemy[e].current_waypoint + 1) % Len(game.enemy[e].waypoints)
                /\ last'.op = "update"
                /\ last'.s = SentinelScreen(e)
                /\ AtTarget(game.enemy[e])]_vars
    /\ \A e \in Sentinels :
          \A k \in 0 .. Len(SpawnedEnemies[e].waypoints) - 1 :
             \/ <>[](game.current_screen_id # SentinelScreen(e))
             \/ []<>(game.enemy[e].current_waypoint = k /\ last.op = "update")

\* a sentinel has gone round: it heads for its first waypoint from the last
C18_Witness ==
    \E e \in Sentinels :
        LET en == game.enemy[e]
            final == en.waypoints[Len(en.waypoints)]
        IN  /\ en.alive
            /\ Len(en.waypoints) > 1
            /\ en.current_waypoint = 0
            /\ Abs(final[1] * SUB - en.x) < 5 * SUB
            /\ Abs(final[2] * SUB - en.y) < 5 * SUB
            /\ last.op = "update"
            /\ game.current_screen_id = SentinelScreen(e)


(***************************************************************************)
(* The aggro of the chasers                                                *)
(***************************************************************************)

Chasers == {e \in EnemyIds : SpawnedEnemies[e].enemy_type = "CHASER"}

\* the chaser of CATACOMBS_2, and two free spots of its screen: one it sees
\* from its spawn point, one behind the pillar north of it
WatchedChaser == "chaser_c2"
ChaserScreen == "CATACOMBS_2"
SeenSpots == {Spot(ChaserScreen, 124, 100)}
HiddenSpots == {Spot(ChaserScreen, 100, 40)}

\* the watched chaser sees the player
Sees(g) == has_line_of_sight(g.enemy[WatchedChaser], g.px, g.py, ChaserScreen)

\* the value of the return timer at which the driver shows the player again
RegainAt == 120

\* the chaser is back within 2 pixels of its spawn point, where it rests
AtRest(en) ==
    LET dx == en.spawn_x - en.x
        dy == en.spawn_y - en.y
    IN  dx * dx + dy * dy <= (2 * SUB) * (2 * SUB)

\* the driver moves the player between the two spots: when the chaser rests,
\* when it has just seen the player, and once during the countdown
MovesPlayer(en) ==
    IF en.is_chasing THEN en.return_timer \in {RETURN_TIME, RegainAt}
    ELSE AtRest(en)

ChasePlace ==
    /\ last.op = "update"
    /\ MovesPlayer(game.enemy[WatchedChaser])
    /\ Place(SeenSpots \cup HiddenSpots)

\* Game.update for a player who presses no key; in this specification ticks
\* counts the updates in a row in which the watched chaser has not seen the
\* player (up to RETURN_TIME + 1)
ChaseTick ==
    /\ game.state = "INIT" \/ game.current_screen_id = ChaserScreen
    /\ \E d \in Draws(game) :
          /\ game' = update(Fresh(game), 0, 0, d)
          /\ last' = Op("update", game.current_screen_id, 0, 0, d, None)
    /\ ticks' = IF game.state = "INIT" THEN ticks
                ELSE IF Sees(game) THEN 0
                ELSE Min(ticks + 1, RETURN_TIME + 1)

SpecChaser == Init /\ [][ChaseTick \/ ChasePlace]_vars

\* C19: in every update of a living chaser, line of sight sets is_chasing and
\* return_timer = 180; without it a chasing chaser's timer goes down by one
\* and is_chasing lasts while the timer is above 0; is_chasing turns false in
\* no other step, so it does in the 180th update in a row without sight.
C19_ChaserAggro ==
    [][/\ \A c \in Chasers :
            LET en == game.enemy[c]
                s == game.current_screen_id
                updated == /\ last'.op = "update"
                           /\ game.state \in {"EXPLORE", "ACTIVATION", "CLIMAX"}
                           /\ c \in ListIds(game.entities[s])
                           /\ en.alive
                sees == has_line_of_sight(en, game.px, game.py, s)
            IN  /\ updated /\ sees
                   => /\ game'.enemy[c].is_chasing
                      /\ game'.enemy[c].return_timer = RETURN_TIME
                /\ updated /\ ~sees /\ en.is_chasing
                   => /\ game'.enemy[c].return_timer = en.return_timer - 1
                      /\ game'.enemy[c].is_chasing = (en.return_timer - 1 > 0)
                /\ en.is_chasing /\ ~game'.enemy[c].is_chasing
                   => updated /\ ~sees /\ game'.enemy[c].return_timer = 0
                /\ game'.enemy[c].is_chasing
                   => game'.enemy[c].return_timer \in 1 .. RETURN_TIME
       /\ game.enemy[WatchedChaser].is_chasing
             => game.enemy[WatchedChaser].return_timer = RETURN_TIME - ticks
       /\ game.enemy[WatchedChaser].is_chasing /\ ~game'.enemy[WatchedChaser].is_chasing
             => ticks' = RETURN_TIME
      ]_vars

\* the watched chaser has just given up, in the 180th update without sight
C19_Witness ==
    /\ last.op = "update"
    /\ game.current_screen_id = ChaserScreen
    /\ game.enemy[WatchedChaser].alive
    /\ ~game.enemy[WatchedChaser].is_chasing
    /\ game.enemy[WatchedChaser].return_timer = 0
    /\ game.enemy[WatchedChaser].x # game.enemy[WatchedChaser].spawn_x
    /\ ticks = RETURN_TIME


(***************************************************************************)
(* Dropping the held item                                                  *)
(***************************************************************************)

\* free spots of the hub: beside the cat, in front of the four pedestals and
\* in the silver gate
CatSpots == {Spot("TOWER_HUB", 112, 112)}
DropPlaces == CatSpots \cup (CarrySpots \ {Spot("CATACOMBS_4", 80, 40)}) \cup GateSpots

DropPlace == last.op \in {"update", "space"} /\ Place(DropPlaces)

\* the player is given an item where the driver has put them, and in the
\* final chamber
DropGive == (last.op = "place" \/ game.state = "CLIMAX") /\ GiveItem

\* the driver lets an update pass to start the game and in the open gate
DropTick == (game.state = "INIT" \/ at_final_gate(game)) /\ Tick({0}, MaxTicks)

\* the driver presses SPACE with an item in the slot
DropSpace == game.state # "INIT" /\ game.held_item # None /\ Space

SpecDrop == Init /\ [][DropTick \/ DropGive \/ DropSpace \/ DropPlace]_vars

\* an interactable of the current screen's list, in range of the player,
\* accepts the held item: interact answers a truthy value
Accepted(g) ==
    \E e \in ListIds(g.entities[g.current_screen_id]) \cap InterIds :
        /\ inter_is_near_player(g.inter[e], g.px, g.py)
        /\ interact(g, e, g.held_item).result # None

\* the cat is in the list of screen s, less than 30 pixels from item it
CatTakes(g, s, it) ==
    /\ it.item_type = "FISH"
    /\ "cat" \in ListIds(g.entities[s])
    /\ cat_is_near(g.cat, it, 30)

\* C20: SPACE in EXPLORE, ACTIVATION or CLIMAX with an item held that no
\* interactable in range accepts drops it: the slot is empty, the item is
\* active and centred on the player, and it is appended to the current
\* screen's list, unless it is a fish less than 30 pixels from the cat, which
\* stays in no list.
C20_DropsHeldItem ==
    [][(/\ last'.op = "space"
        /\ game.state \in {"EXPLORE", "ACTIVATION", "CLIMAX"}
        /\ game.held_item # None
        /\ ~Accepted(game))
       => LET d == game.held_item
              s == game.current_screen_id
              it == [game.item[d] EXCEPT
                        !.x = game.px + PLAYER_SIZE \div 2 - game.item[d].size \div 2,
                        !.y = game.py + PLAYER_SIZE \div 2 - game.item[d].size \div 2,
                        !.active = TRUE]
          IN  /\ game'.held_item = None
              /\ game'.item = [game.item EXCEPT ![d] = it]
              /\ game'.state = game.state
              /\ \A t \in ScreenID \ {s} : game'.entities[t] = game.entities[t]
              /\ IF CatTakes(game, s, it)
                 THEN game'.entities[s] = game.entities[s] /\ game'.cat.following
                 ELSE game'.entities[s] = Append(game.entities[s], d)
      ]_vars

\* an item has been dropped in the final chamber during the boss fight
C20_Witness ==
    /\ last.op = "space"
    /\ "DROP" \in game.events
    /\ game.state = "CLIMAX"
    /\ game.held_item = None
    /\ game.entities["FINAL_CHAMBER"][Len(game.entities["FINAL_CHAMBER"])] = TestItem
    /\ game.item[TestItem].active


\* the living enemies of the current list that overlap the player when the
\* combat pass starts
Overlapping(g) ==
    {e \in ListIds(g.entities[g.current_screen_id]) \cap EnemyIds :
        g.enemy[e].alive /\ is_colliding_with_player(g.enemy[e], g.px, g.py)}

\* C21: in one combat pass every living enemy that is not immune to the sword
\* and overlaps a player who holds the sword is killed and removed from the
\* list, wherever it is in the list; two such enemies next to each other in
\* the list are both removed in that pass.
C21_OnePassKillsAll ==
    [][InCombatPass(game, last') =>
          LET g == BeforeCombat(game, last')
              s == game.current_screen_id
          IN  (/\ player_has_sword(g)
               /\ \A e \in Overlapping(g) : ~g.enemy[e].immune_to_sword)
              => \A e \in Overlapping(g) :
                    /\ ~game'.enemy[e].alive
                    /\ e \notin ListIds(game'.entities[s])]_vars


(***************************************************************************)
(* The clamp of Player.update and the screen transition                    *)
(***************************************************************************)

\* Player.update, lines 70-76 and 105-108, where no tile and no entity is in
\* the way (an open edge): the move and the clamp
player_update_open(g, vx, vy) ==
    [g EXCEPT !.px = Max(-PLAYER_SIZE, Min(g.px + vx, NATIVE_WIDTH)),
              !.py = Max(-PLAYER_SIZE, Min(g.py + vy, NATIVE_HEIGHT))]

\* the direction of a velocity along one axis
Heading(vx, vy) ==
    IF vx < 0 THEN "WEST" ELSE IF vx > 0 THEN "EAST"
    ELSE IF vy < 0 THEN "NORTH" ELSE "SOUTH"

\* the player walks one step along an axis; last.r is what
\* Camera.check_screen_transition reports for the position after the step
\* (Game.update, lines 557-561)
ClampWalk ==
    /\ game.state = "EXPLORE"
    /\ \E vx \in Velocities, vy \in Velocities :
          /\ (vx = 0) # (vy = 0)
          /\ game' = player_update_open(Fresh(game), vx, vy)
          /\ last' = Op("walk", game.current_screen_id, vx, vy, NoDraws,
                        check_screen_transition(game'.px, game'.py,
                                                PLAYER_SIZE, PLAYER_SIZE))
    /\ UNCHANGED ticks

SpecClamp == Init /\ [][TickInit \/ ClampWalk]_vars

\* C22: the clamp of Player.update lets a player who walks out through an
\* open edge get far enough for a transition: in each of the four directions
\* the walk is not stopped by the clamp before Camera.check_screen_transition
\* reports the exit in that direction.
C22_WalkerGetsOut ==
    [][(/\ last'.op = "walk"
        /\ game'.px = game.px
        /\ game'.py = game.py)
       => last'.r = Heading(last'.x, last'.y)]_vars

\* no position the clamp permits is reported as an exit
ClampNeverOut == last.op = "walk" => last.r = None


(***************************************************************************)
(* The player's movement against walls and solid entities                  *)
(***************************************************************************)

\* free spots beside the fountain and beside a wall block of the hub, and
\* below the gold gate of CATACOMBS_1
MoveSpots == {Spot("TOWER_HUB", 64, 96), Spot("TOWER_HUB", 48, 32), Spot("CATACOMBS_1", 72, 80)}

MovePlace == ticks = 1 /\ Place(MoveSpots)

SpecMove == Init /\ [][TickAny \/ MovePlace]_vars

\* the player's box moved by (vx, vy) has a corner in a solid tile or
\* overlaps an active solid entity of the current screen
Blocked(g, vx, vy) ==
    LET s == g.current_screen_id
        x == g.px + vx
        y == g.py + vy
    IN  \/ \E cx \in {x, x + PLAYER_SIZE - 1}, cy \in {y, y + PLAYER_SIZE - 1} :
              is_tile_solid(s, cx, cy)
        \/ \E e \in ListIds(g.entities[s]) \cap InterIds :
              /\ g.inter[e].solid /\ g.inter[e].active
              /\ colliderect(x, y, PLAYER_SIZE, PLAYER_SIZE,
                             g.inter[e].x, g.inter[e].y, g.inter[e].width, g.inter[e].height)

\* C23: an update whose move puts a corner of the player's box in a solid
\* tile or the box on an active solid entity leaves the player where they
\* were on both axes; so does one with zero velocity; any other one moves
\* the player by the velocity.
C23_AllOrNothing ==
    [][(/\ last'.op = "update"
        /\ game.state \in {"EXPLORE", "ACTIVATION"}
        /\ ~at_final_gate(game)
        /\ game'.events \cap {"DEATH", "SCREEN"} = {})
       => /\ Blocked(game, last'.x, last'.y)
             => game'.px = game.px /\ game'.py = game.py
          /\ last'.x = 0 /\ last'.y = 0
             => game'.px = game.px /\ game'.py = game.py
          /\ ~Blocked(game, last'.x, last'.y)
             => game'.px = game.px + last'.x /\ game'.py = game.py + last'.y
      ]_vars

\* a diagonal step has been taken back though one axis alone was free
C23_Witness ==
    /\ last.op = "update"
    /\ last.x # 0 /\ last.y # 0
    /\ game.state = "EXPLORE"
    /\ "DEATH" \notin game.events
    /\ Blocked(game, last.x, last.y)
    /\ ~Blocked(game, 0, last.y)
    /\ \E p \in MoveSpots : p.s = game.current_screen_id /\ p.x = game.px /\ p.y = game.py


(***************************************************************************)
(* The chaser and the walls                                                *)
(***************************************************************************)

\* the screen an enemy is spawned on
SpawnScreen(e) == CHOOSE s \in ScreenID : e \in ListIds(InitialEntities[s])

\* free spots of CATACOMBS_2 around the pillar north of the chaser: east of
\* the chaser, north-east and north of the pillar, and the chaser's own spawn
\* point south of it
LureSpots ==
    {Spot(ChaserScreen, 124, 100), Spot(ChaserScreen, 124, 24),
     Spot(ChaserScreen, 100, 32), Spot(ChaserScreen, 100, 100)}

\* the driver puts the player on a spot the chaser does not touch, while the
\* chaser rests at its spawn point and again each time it has caught the
\* player
LurePlace ==
    /\ last.op = "update"
    /\ \/ ~game.enemy[WatchedChaser].is_chasing /\ AtRest(game.enemy[WatchedChaser])
       \/ "DEATH" \in game.events
    /\ Place({p \in LureSpots :
                ~is_colliding_with_player(game.enemy[WatchedChaser], p.x, p.y)})

SpecReturn == Init /\ [][ChaseTick \/ LurePlace]_vars

\* C24: a living chaser with no corner of its box in a solid tile before an
\* update has none in a solid tile after it, chasing or on its way back to
\* its spawn point.
C24_ChaserOutOfWalls ==
    [][\A c \in Chasers :
          (/\ game.enemy[c].alive
           /\ ~HitsWall(SpawnScreen(c), game.enemy[c].x, game.enemy[c].y, game.enemy[c].size))
          => ~HitsWall(SpawnScreen(c), game'.enemy[c].x, game'.enemy[c].y,
                       game'.enemy[c].size)]_vars


(***************************************************************************)
(* Filling the watering can and the chalice                                *)
(***************************************************************************)

\* the empty vessel a source fills, and what it becomes
Fills(e) ==
    CASE e = "fountain" -> [empty |-> "WATERING_CAN", full |-> "WATERING_CAN_FULL"]
      [] e = "blessed_spring" -> [empty |-> "CHALICE", full |-> "CHALICE_FILLED"]

\* C25: using the empty WATERING_CAN on the Fountain, or the empty CHALICE on
\* the BlessedSpring, yields "filled": the held item becomes the filled
\* variant and stays in the player's hand, no screen's entity list changes,
\* and the source is not marked activated, so that it fills again.
C25_FillKeepsItem ==
    [][(/\ last'.op = "interact"
        /\ last'.s \in {"fountain", "blessed_spring"}
        /\ game.held_item # None
        /\ game.item[game.held_item].item_type = Fills(last'.s).empty)
       => /\ last'.r = "filled"
          /\ game'.held_item = game.held_item
          /\ game'.item = [game.item EXCEPT
                             ![game.held_item].item_type = Fills(last'.s).full]
          /\ game'.entities = game.entities
          /\ game'.inter = game.inter
          /\ ~game'.inter[last'.s].is_activated]_vars

\* the spring has just filled the chalice in the player's hand
C25_Witness ==
    /\ last.op = "interact"
    /\ last.s = "blessed_spring"
    /\ last.r = "filled"
    /\ game.held_item = TestItem
    /\ game.item[TestItem].item_type = "CHALICE_FILLED"
    /\ ~game.inter["blessed_spring"].is_activated


(***************************************************************************)
(* The bomb and the cracked wall                                           *)
(***************************************************************************)

\* free spots in reach of the cracked wall (north and west of it), the place
\* of the wall itself and a spot of its screen out of reach of it
WallSpots ==
    {Spot("CATACOMBS_4", 80, 40), Spot("CATACOMBS_4", 60, 64),
     Spot("CATACOMBS_4", 80, 64), Spot("CATACOMBS_4", 40, 120)}

\* the driver carries the player between the bomb's place and the wall
BombPlace == last.op \in {"update", "space"} /\ Place(BombSpots \cup WallSpots)

\* SPACE where the driver has put the player
BombSpace == last.op = "place" /\ Space

SpecBomb == Init /\ [][TickInit \/ BombPlace \/ BombSpace]_vars

\* SPACE with a BOMB in reach of the cracked wall of the current screen,
\* which is not activated
UsesBomb(g) ==
    /\ g.state \in {"EXPLORE", "ACTIVATION", "CLIMAX"}
    /\ g.held_item # None
    /\ g.item[g.held_item].item_type = "BOMB"
    /\ "cracked_wall" \in ListIds(g.entities[g.current_screen_id])
    /\ ~g.inter["cracked_wall"].is_activated
    /\ inter_is_near_player(g.inter["cracked_wall"], g.px, g.py)

\* the items of type BOMB in the list of CATACOMBS_2, in the order of the list
BombsLying(g) ==
    SelectSeq(g.entities["CATACOMBS_2"],
              LAMBDA e : e \in ItemIds /\ g.item[e].item_type = "BOMB")

\* the items that lie in a list or are in the player's hand
Present(g) == {i \in ItemIds : InSomeList(g, i) \/ g.held_item = i}

\* C26: SPACE with the BOMB in reach of a cracked wall that is not activated
\* places the bomb: the slot is empty, the same bomb is appended to the list
\* of the wall's screen at the wall's position, the wall is activated, not
\* solid and not active, and exactly one new BOMB at (50, 80) is added to
\* CATACOMBS_2; an activated wall yields no bomb placement again.
C26_BombPlaced ==
    [][/\ (last'.op = "space" /\ UsesBomb(game))
          => LET s == game.current_screen_id
                 held == game.held_item
                 wall == game.inter["cracked_wall"]
             IN  /\ "BOMB_TIMER" \in game'.events
                 /\ game'.held_item = None
                 /\ game'.entities[s] = Append(game.entities[s], held)
                 /\ game'.item[held] = [game.item[held] EXCEPT !.x = wall.x,
                                                               !.y = wall.y,
                                                               !.active = TRUE]
                 /\ game'.inter = [game.inter EXCEPT
                                      !["cracked_wall"].is_activated = TRUE,
                                      !["cracked_wall"].solid = FALSE,
                                      !["cracked_wall"].active = FALSE]
                 /\ \E b \in ItemIds :
                       /\ ~InSomeList(game, b) /\ b # held
                       /\ game'.item[b] = create_item("BOMB", 50, 80)
                       /\ game'.entities["CATACOMBS_2"] =
                              Append(game.entities["CATACOMBS_2"], b)
                 /\ Len(BombsLying(game')) = Len(BombsLying(game)) + 1
                 /\ \A t \in ScreenID \ {s, "CATACOMBS_2"} :
                       game'.entities[t] = game.entities[t]
       /\ game.inter["cracked_wall"].is_activated
          => /\ "BOMB_TIMER" \notin game'.events
             /\ game'.inter["cracked_wall"] = game.inter["cracked_wall"]
             /\ Present(game') \subseteq Present(game)
      ]_vars

\* the player has used the second bomb in reach of the wall the first one
\* opened: it was dropped at their feet and the wall is as it was
C26_Witness ==
    /\ last.op = "space"
    /\ last.s = "CATACOMBS_4"
    /\ game.inter["cracked_wall"].is_activated
    /\ ~game.inter["cracked_wall"].solid
    /\ inter_is_near_player(game.inter["cracked_wall"], game.px, game.py)
    /\ game.held_item = None
    /\ {"bomb", "bomb2"} \subseteq ListIds(game.entities["CATACOMBS_4"])
    /\ game.item["bomb"].x = game.inter["cracked_wall"].x
    /\ game.item["bomb2"].x # game.inter["cracked_wall"].x


(***************************************************************************)
(* The acorn, the soft dirt and the chasm                                  *)
(***************************************************************************)

\* C27: the soft dirt yields "planted" only for an ACORN while no acorn is
\* planted, and the acorn is consumed; it yields "grow_tree" only for a
\* WATERING_CAN_FULL once an acorn is planted; the chasm is solid until a
\* "grow_tree" result, which makes it non-solid and turns the can in the
\* player's hand back into the empty WATERING_CAN.
C27_TreeBridgeOrder ==
    [][/\ (last'.op = "interact" /\ last'.s = "soft_dirt")
          => LET held == game.held_item
                 planted == game.inter["soft_dirt"].has_acorn
             IN  /\ last'.r = "planted"
                       <=> (game.item[held].item_type = "ACORN" /\ ~planted)
                 /\ last'.r = "planted"
                       => /\ game'.inter["soft_dirt"].has_acorn
                          /\ game'.held_item = None
                          /\ ~InSomeList(game', held)
                          /\ game'.inter["chasm"].solid
                 /\ last'.r = "grow_tree"
                       <=> (game.item[held].item_type = "WATERING_CAN_FULL" /\ planted)
                 /\ last'.r = "grow_tree"
                       => /\ ~game'.inter["chasm"].solid
                          /\ game'.held_item = held
                          /\ game'.item[held].item_type = "WATERING_CAN"
                          /\ game'.inter["soft_dirt"].has_acorn
       /\ ~game.inter["soft_dirt"].has_acorn => game.inter["chasm"].solid
       /\ (game.inter["chasm"].solid /\ ~game'.inter["chasm"].solid)
             => (last'.op = "interact" /\ last'.r = "grow_tree")
      ]_vars

\* the full can has just been used on the planted acorn: the bridge is grown
\* and the can in the player's hand is empty
C27_Witness ==
    /\ last.op = "interact"
    /\ last.s = "soft_dirt"
    /\ last.r = "grow_tree"
    /\ game.inter["soft_dirt"].has_acorn
    /\ ~game.inter["chasm"].solid
    /\ game.held_item = TestItem
    /\ game.item[TestItem].item_type = "WATERING_CAN"


(***************************************************************************)
(* The two keys and the two gates                                          *)
(***************************************************************************)

Gates == {"gold_gate", "silver_gate"}

\* free spots next to the gold key, the sword and the silver key
KeyPlaces ==
    {Spot("TOWER_HUB", 48, 32), Spot("TOWER_HUB", 96, 36), Spot("CATACOMBS_3", 75, 70)}

\* free spots in reach of the gold gate (below it) and of the silver gate
\* (west of it)
LockSpots == {Spot("CATACOMBS_1", 72, 80), Spot("TOWER_HUB", 64, 16)}

\* the driver fetches an item with an empty slot and carries it to a gate
GatePlace ==
    /\ last.op \in {"update", "space"}
    /\ Place(IF game.held_item = None THEN KeyPlaces \cup LockSpots ELSE LockSpots)

\* SPACE where the driver has put the player
GateSpace == last.op = "place" /\ Space

SpecGate == Init /\ [][TickInit \/ GatePlace \/ GateSpace]_vars

\* SPACE with an item in the slot, in reach of gate e of the current screen
UsesOnGate(g, e) ==
    /\ g.state \in {"EXPLORE", "ACTIVATION", "CLIMAX"}
    /\ g.held_item # None
    /\ e \in ListIds(g.entities[g.current_screen_id])
    /\ inter_is_near_player(g.inter[e], g.px, g.py)

\* an interactable other than e, in reach, accepts the held item
TakenElsewhere(g, e) ==
    \E o \in (ListIds(g.entities[g.current_screen_id]) \cap InterIds) \ {e} :
        /\ inter_is_near_player(g.inter[o], g.px, g.py)
        /\ interact(g, o, g.held_item).result # None

\* C28: SPACE with the matching key in reach of a locked gate opens it: the
\* gate is activated, not solid and not active, the slot is empty and the key
\* is in no list; any other item leaves the gate as it was, solid and not
\* activated; an opened gate stays open until a restart.
C28_KeyOpensGate ==
    [][\A e \in Gates :
          /\ (last'.op = "space" /\ UsesOnGate(game, e) /\ ~game.inter[e].is_activated)
                => IF game.item[game.held_item].item_type = game.inter[e].requires_item
                   THEN /\ game'.inter[e] = [game.inter[e] EXCEPT !.is_activated = TRUE,
                                                                  !.solid = FALSE,
                                                                  !.active = FALSE]
                        /\ "GATE_OPEN" \in game'.events
                        /\ game'.held_item = None
                        /\ ~InSomeList(game', game.held_item)
                   ELSE ~TakenElsewhere(game, e)
                           => /\ game'.inter[e] = game.inter[e]
                              /\ game'.inter[e].solid
                              /\ ~game'.inter[e].is_activated
                              /\ "GATE_OPEN" \notin game'.events
          /\ (game.inter[e].is_activated /\ "RESTART" \notin game'.events)
                => /\ game'.inter[e] = game.inter[e]
                   /\ ~game'.inter[e].solid
                   /\ ~game'.inter[e].active
      ]_vars

\* both gates have been opened with their keys, and the sword has then been
\* used in reach of the open gold gate, where it was dropped
C28_Witness ==
    /\ last.op = "space"
    /\ last.s = "CATACOMBS_1"
    /\ inter_is_near_player(game.inter["gold_gate"], game.px, game.py)
    /\ \A e \in Gates : game.inter[e].is_activated /\ ~game.inter[e].solid
    /\ ~game.all_crystals_placed
    /\ ~InSomeList(game, "gold_key") /\ ~InSomeList(game, "silver_key")
    /\ game.held_item = None
    /\ "sword" \in ListIds(game.entities["CATACOMBS_1"])


(***************************************************************************)
(* The boss between two hits                                               *)
(***************************************************************************)

\* the largest number of boss updates the model counts since the last
\* accepted hit (or since the boss was created)
MaxHitGap == 32

\* take_hit has taken one off the boss's counter
HitAccepted(b, b1) == b1.hits_remaining < b.hits_remaining

\* TheVoid.update, as every update of the boss fight calls it; ticks counts
\* the updates since the last accepted hit
GapUpdate ==
    /\ ticks < MaxHitGap
    /\ game.boss.alive
    /\ game' = [Fresh(game) EXCEPT !.boss = void_update(@)]
    /\ last' = Op("void_update", game.current_screen_id, game.px, game.py, NoDraws, None)
    /\ ticks' = ticks + 1

\* lines 618-628 of Game.update after it, in an update in which the sword
\* touches the boss; last.r is what take_hit returned
GapHit ==
    /\ last.op = "void_update"
    /\ \E d \in (IF game.boss.invulnerable \/ game.boss.hits_remaining <= 1
                 THEN {NoBossDraw} ELSE BossDraws) :
          /\ game' = sword_hit(Fresh(game), d)
          /\ last' = Op("take_hit", game.current_screen_id, game.px, game.py,
                        [crawler |-> NoCrawlerDraws, boss |-> d],
                        take_hit(game.boss, game.px, game.py, d).defeated)
    /\ ticks' = IF HitAccepted(game.boss, game'.boss) THEN 0 ELSE ticks

SpecGap == Init /\ [][GapUpdate \/ GapHit]_vars

\* C29: an accepted hit that leaves hits_remaining > 0 puts the boss on one of
\* the four corners, appends exactly one projectile and makes the boss
\* invulnerable for 30 updates; projectiles are appended by nothing else, so
\* that one boss fires at most 2; a hit is accepted exactly when the boss is
\* not invulnerable, so that two accepted hits are at least 30 updates apart.
C29_HitWindow ==
    [][LET b == game.boss
           b1 == game'.boss
       IN  /\ last'.op = "take_hit"
                => /\ HitAccepted(b, b1) <=> ~b.invulnerable
                   /\ ~HitAccepted(b, b1) => b1 = b
                   /\ (HitAccepted(b, b1) /\ b1.hits_remaining > 0)
                         => /\ \E k \in 1 .. 4 :
                                  <<b1.x, b1.y>> = <<Corners[k][1] * SUB, Corners[k][2] * SUB>>
                            /\ Len(b1.projectiles) = Len(b.projectiles) + 1
                            /\ SubSeq(b1.projectiles, 1, Len(b.projectiles)) = b.projectiles
                            /\ b1.invulnerable
                            /\ b1.invulnerable_timer = INVULNERABLE_TIME
                   /\ (HitAccepted(b, b1) /\ b.hits_remaining < 3)
                         => ticks >= INVULNERABLE_TIME
           /\ last'.op = "void_update"
                => /\ b.invulnerable => (b1.invulnerable <=> ticks' < INVULNERABLE_TIME)
                   /\ ~b.invulnerable => ~b1.invulnerable
                   /\ Len(b1.projectiles) <= Len(b.projectiles)
           /\ Len(b1.projectiles) > Len(b.projectiles)
                => /\ last'.op = "take_hit"
                   /\ b1.hits_remaining = b.hits_remaining - 1
                   /\ b1.hits_remaining \in {1, 2}
           /\ Len(b1.projectiles) <= 2
      ]_vars

\* the second hit has just been accepted: the boss is invulnerable again and
\* has fired its second projectile while the first is still in flight
C29_Witness ==
    /\ last.op = "take_hit"
    /\ ticks = 0
    /\ game.boss.hits_remaining = 1
    /\ game.boss.invulnerable
    /\ game.boss.invulnerable_timer = INVULNERABLE_TIME
    /\ Len(game.boss.projectiles) = 2


(***************************************************************************)
(* After the boss                                                          *)
(***************************************************************************)

\* where the ring lies: the screens and list positions that hold it
RingPlaces(g) ==
    UNION {{<<s, i>> : i \in {j \in 1 .. Len(g.entities[s]) : g.entities[s][j] = "ring"}} :
              s \in ScreenID}

\* once the boss is gone the driver also puts the player on what is left of
\* it and on its projectiles
AfterPlace ==
    /\ game.state = "CLIMAX"
    /\ ~game.boss.alive
    /\ last.op \in {"update", "space"}
    /\ \E p \in {Spot("FINAL_CHAMBER", Px(game.boss.x), Px(game.boss.y))}
                \cup {Spot("FINAL_CHAMBER", Px(game.boss.projectiles[i].x),
                           Px(game.boss.projectiles[i].y)) :
                         i \in 1 .. Len(game.boss.projectiles)} :
          /\ Standable(game, p.s, p.x, p.y)
          /\ game' = [Fresh(game) EXCEPT !.px = p.x, !.py = p.y]
          /\ last' = Op("place", p.s, p.x, p.y, NoDraws, None)
    /\ UNCHANGED ticks

SpecAfter ==
    Init /\ [][StoryTick \/ StorySpace \/ StoryPlace \/ StoryPlaceClimax \/ AfterPlace]_vars

\* C30: the ring is created once in a game, in the update of the third
\* accepted hit, in which boss_defeated becomes true and the boss is marked
\* not alive; in every later step of that game the boss is unchanged (not
\* updated, not hit), the player does not die, no second ring is created and
\* boss_defeated stays true, until a restart.
C30_RingOnce ==
    [][LET created == RingPlaces(game') \ RingPlaces(game)
       IN  /\ created # {} <=> (~game.boss_defeated /\ game'.boss_defeated)
           /\ created # {}
                => /\ last'.op = "update"
                   /\ game.state = "CLIMAX"
                   /\ game.boss.alive /\ ~game'.boss.alive
                   /\ ~game.boss.invulnerable \/ game.boss.invulnerable_timer = 1
                   /\ game.boss.hits_remaining = 1 /\ game'.boss.hits_remaining = 0
                   /\ RingPlaces(game) = {}
                   /\ RingPlaces(game') =
                         {<<game.current_screen_id,
                            Len(game.entities[game.current_screen_id]) + 1>>}
                   /\ game'.item["ring"] = SpawnedItems["ring"]
           /\ game.boss_defeated <=> ~game.boss.alive
           /\ (game.boss_defeated /\ "RESTART" \notin game'.events)
                => /\ game'.boss = game.boss
                   /\ game'.boss_defeated
                   /\ "DEATH" \notin game'.events
                   /\ RingPlaces(game') \subseteq RingPlaces(game)
      ]_vars

\* an update after the boss's defeat has left the player, without the sword,
\* standing on what is left of the boss
C30_Witness ==
    /\ last.op = "update"
    /\ game.state = "CLIMAX"
    /\ game.boss_defeated
    /\ ~game.boss.alive
    /\ game.held_item = None
    /\ game.current_screen_id = "FINAL_CHAMBER"
    /\ is_colliding_with_player(game.boss, game.px, game.py)
    /\ "DEATH" \notin game.events
    /\ "ring" \in ListIds(game.entities["FINAL_CHAMBER"])


(***************************************************************************)
(* The boss inside the inner bounds                                        *)
(***************************************************************************)

\* the inner bounds of the boss's position on the two axes, in 1/SUB pixels
InnerMin == 32 * SUB
InnerMaxX(b) == (NATIVE_WIDTH - b.size - 32) * SUB
InnerMaxY(b) == (NATIVE_HEIGHT - b.size - 32) * SUB

InsideInner(b) ==
    /\ InnerMin <= b.x /\ b.x <= InnerMaxX(b)
    /\ InnerMin <= b.y /\ b.y <= InnerMaxY(b)

\* C31: after every update of the boss and after every teleport its position
\* is inside the inner bounds, 32 <= x <= 160 - 24 - 32 and
\* 32 <= y <= 192 - 24 - 32; an update that would leave the range on an axis
\* negates the velocity on that axis and clamps the position to the bound,
\* and any other update moves the boss by its velocity.
C31_BossInBounds ==
    [][LET b == game.boss
           b1 == game'.boss
           x1 == b.x + b.velocity_x
           y1 == b.y + b.velocity_y
       IN  /\ last'.op = "void_update"
                => /\ InsideInner(b1)
                   /\ IF x1 < InnerMin \/ x1 > InnerMaxX(b)
                      THEN /\ b1.velocity_x = -b.velocity_x
                           /\ b1.x = IF x1 < InnerMin THEN InnerMin ELSE InnerMaxX(b)
                      ELSE b1.velocity_x = b.velocity_x /\ b1.x = x1
                   /\ IF y1 < InnerMin \/ y1 > InnerMaxY(b)
                      THEN /\ b1.velocity_y = -b.velocity_y
                           /\ b1.y = IF y1 < InnerMin THEN InnerMin ELSE InnerMaxY(b)
                      ELSE b1.velocity_y = b.velocity_y /\ b1.y = y1
           /\ (last'.op = "take_hit" /\ <<b1.x, b1.y>> # <<b.x, b.y>>)
                => InsideInner(b1)
      ]_vars

\* after a teleport the boss has just bounced off the east bound
C31_Witness ==
    /\ last.op = "void_update"
    /\ game.boss.hits_remaining < 3
    /\ game.boss.x = InnerMaxX(game.boss)
    /\ game.boss.velocity_x < 0
    /\ game.boss.velocity_y > 0
    /\ game.boss.projectiles # <<>>


(***************************************************************************)
(* The projectiles, frame after frame                                      *)
(***************************************************************************)

\* one frame of the boss fight, lines 614-616 of Game.update: the boss is
\* updated while it is alive, and nothing is updated once it is not; ticks
\* counts the frames since the last accepted hit up to MaxHitGap
FrameUpdate ==
    /\ game' = IF game.boss.alive
               THEN [Fresh(game) EXCEPT !.boss = void_update(game.boss)]
               ELSE Fresh(game)
    /\ last' = Op("void_update", game.current_screen_id, game.px, game.py, NoDraws, None)
    /\ ticks' = Min(ticks + 1, MaxHitGap)

\* lines 618-628 of Game.update in a frame in which the sword touches the
\* living boss; the driver lets it do so up to MaxHitGap frames after a hit
FrameHit ==
    /\ last.op = "void_update"
    /\ game.boss.alive
    /\ ticks < MaxHitGap
    /\ \E d \in (IF game.boss.invulnerable \/ game.boss.hits_remaining <= 1
                 THEN {NoBossDraw} ELSE BossDraws) :
          /\ game' = sword_hit(Fresh(game), d)
          /\ last' = Op("take_hit", game.current_screen_id, game.px, game.py,
                        [crawler |-> NoCrawlerDraws, boss |-> d], None)
    /\ ticks' = IF HitAccepted(game.boss, game'.boss) THEN 0 ELSE ticks

\* Game.update is called in every frame
LiveFrames == Init /\ [][FrameUpdate \/ FrameHit]_vars /\ WF_vars(FrameUpdate)

\* C32: every projectile the boss fires is deactivated and removed from the
\* boss's list in the end, so that the list, to which at most two are ever
\* appended, is empty from some frame on; and after each update of the boss
\* the list holds active projectiles only.
C32_ProjectilesLeave ==
    /\ [](last.op = "void_update"
            => \A i \in 1 .. Len(game.boss.projectiles) : game.boss.projectiles[i].active)
    /\ <>[](game.boss.projectiles = <<>>)


(***************************************************************************)
(* The crawler of GARDENS_3                                                *)
(***************************************************************************)

WatchedCrawler == "crawler_g3"
CrawlerScreen == "GARDENS_3"

\* a free spot of the crawler's screen off the row and the column of the
\* crawler's spawn point
CrawlSpots == {Spot(CrawlerScreen, 120, 150)}

\* the driver brings the player from the hub to the crawler's screen, where
\* they stay
CrawlPlace == game.current_screen_id = "TOWER_HUB" /\ last.op = "update" /\ Place(CrawlSpots)

\* random.choice of the direction, of the draws the model makes: any of the
\* four on the spawn point, and the one that leads back to it elsewhere
HomeDirs(en) ==
    IF en.x = en.spawn_x /\ en.y = en.spawn_y THEN Direction
    ELSE IF en.x < en.spawn_x THEN {"EAST"}
    ELSE IF en.x > en.spawn_x THEN {"WEST"}
    ELSE IF en.y < en.spawn_y THEN {"SOUTH"}
    ELSE {"NORTH"}

CrawlDraws(g) ==
    {d \in Draws(g) :
        \A e \in DOMAIN d.crawler :
            g.enemy[e].is_paused => d.crawler[e].dir \in HomeDirs(g.enemy[e])}

\* Game.update for a player who presses no key, on the crawler's screen;
\* ticks counts the updates since the crawler last changed between moving
\* and pausing
CrawlTick ==
    /\ game.state = "INIT" \/ game.current_screen_id = CrawlerScreen
    /\ \E d \in CrawlDraws(game) :
          /\ game' = update(Fresh(game), 0, 0, d)
          /\ last' = Op("update", game.current_screen_id, 0, 0, d, None)
    /\ ticks' = IF game.state = "INIT" THEN ticks
                ELSE IF game'.enemy[WatchedCrawler].is_paused
                        # game.enemy[WatchedCrawler].is_paused THEN 0
                ELSE ticks + 1

SpecCrawl == Init /\ [][CrawlTick \/ CrawlPlace]_vars

\* the main loop calls Game.update once a frame, for ever: weak fairness of
\* CrawlTick, WF_vars(CrawlTick), with the crawler's screen being the current
\* one for ENABLED <<CrawlTick>>_vars
LiveCrawl ==
    SpecCrawl /\ ([]<>(game.current_screen_id # CrawlerScreen) \/ []<><<CrawlTick>>_vars)

\* exactly one of direction_x, direction_y is non-zero, and it is 1 or -1
Cardinal(en) ==
    <<en.direction_x, en.direction_y>> \in {<<1, 0>>, <<-1, 0>>, <<0, 1>>, <<0, -1>>}

\* C33: a living crawler that is updated in every tick alternates between
\* pausing and moving for ever: a pause ends within 60 updates, with one of
\* the four cardinal directions picked; a move ends within 120 updates; and
\* the position changes only in an update that finds and leaves the crawler
\* moving.
C33_CrawlerAlternates ==
    /\ [][(last'.op = "update" /\ last'.s = CrawlerScreen)
             => LET en == game.enemy[WatchedCrawler]
                    en1 == game'.enemy[WatchedCrawler]
                IN  /\ en.is_paused => ticks < 60
                    /\ ~en.is_paused => ticks < 120
                    /\ (en.is_paused /\ ~en1.is_paused) => Cardinal(en1)
                    /\ (~en.is_paused /\ ~en1.is_paused) => Cardinal(en1)
                    /\ <<en1.x, en1.y>> # <<en.x, en.y>>
                          => ~en.is_paused /\ ~en1.is_paused]_vars
    /\ [][last'.op # "update" =>
             <<game'.enemy[WatchedCrawler].x, game'.enemy[WatchedCrawler].y>>
                = <<game.enemy[WatchedCrawler].x, game.enemy[WatchedCrawler].y>>]_vars
    /\ \/ <>[](game.current_screen_id # CrawlerScreen)
       \/ /\ []<>(game.enemy[WatchedCrawler].is_paused)
          /\ []<>(~game.enemy[WatchedCrawler].is_paused)

\* the crawler, east of its spawn point and heading west, is in the last
\* update of a move of 120
C33_Witness ==
    /\ last.op = "update"
    /\ ~game.enemy[WatchedCrawler].is_paused
    /\ ticks = 119
    /\ game.enemy[WatchedCrawler].direction_x = -1
    /\ game.enemy[WatchedCrawler].x > game.enemy[WatchedCrawler].spawn_x
    /\ game.enemy[WatchedCrawler].alive


(***************************************************************************)
(* Into the final chamber                                                  *)
(***************************************************************************)

\* the player is within 20 pixels of (80, 20) on both axes, above y = 30
NearGate(g) == Abs(g.px - 80) < 20 /\ Abs(g.py - 20) < 20 /\ g.py < 30

\* right after a death in the boss fight the driver brings the player from
\* the spawn point of the hub back to the open gate
EntryPlace ==
    /\ game.state = "CLIMAX"
    /\ game.current_screen_id = "TOWER_HUB"
    /\ last.op = "update"
    /\ "DEATH" \in game.events
    /\ \E p \in GateSpots :
          /\ Standable(game, p.s, p.x, p.y)
          /\ game' = [Fresh(game) EXCEPT !.px = p.x, !.py = p.y]
          /\ last' = Op("place", p.s, p.x, p.y, NoDraws, None)
    /\ UNCHANGED ticks

\* Game.update with any keys held, for a player the driver has put at the gate
EntryTick ==
    /\ last.op = "place"
    /\ game.current_screen_id = "TOWER_HUB"
    /\ NearGate(game)
    /\ game.all_crystals_placed
    /\ Tick(Velocities, MaxStoryTicks)

SpecEntry ==
    Init /\ [][StoryTick \/ StorySpace \/ StoryPlace \/ StoryPlaceClimax
               \/ EntryPlace \/ EntryTick]_vars

\* C34: in EXPLORE or ACTIVATION, on TOWER_HUB with all crystals placed and
\* the player within 20 pixels of (80, 20) on both axes and above y = 30, an
\* update makes FINAL_CHAMBER the current screen, puts the player at
\* (72, 160) and sets CLIMAX, and does nothing else: no step of the player,
\* no update of an enemy or the cat, no combat, no edge transition; no other
\* update enters the final chamber, and in CLIMAX the same place triggers
\* nothing.
C34_FinalEntry ==
    [][last'.op = "update"
          => LET trigger == /\ game.state \in {"EXPLORE", "ACTIVATION"}
                            /\ game.current_screen_id = "TOWER_HUB"
                            /\ game.all_crystals_placed
                            /\ NearGate(game)
             IN  /\ trigger
                      => /\ game'.current_screen_id = "FINAL_CHAMBER"
                         /\ <<game'.px, game'.py>> = <<72, 160>>
                         /\ game'.state = "CLIMAX"
                         /\ game'.enemy = game.enemy
                         /\ game'.cat = game.cat
                         /\ game'.boss = game.boss
                         /\ game'.entities = game.entities
                         /\ game'.item = game.item
                         /\ game'.held_item = game.held_item
                         /\ "DEATH" \notin game'.events
                 /\ (game'.current_screen_id = "FINAL_CHAMBER"
                       /\ game.current_screen_id # "FINAL_CHAMBER") => trigger
                 /\ (game.state = "CLIMAX" /\ game.current_screen_id = "TOWER_HUB")
                      => /\ game'.current_screen_id = "TOWER_HUB"
                         /\ game'.state = "CLIMAX"]_vars

\* the player has entered the final chamber in an update with keys held
C34_Witness ==
    /\ last.op = "update"
    /\ last.s = "TOWER_HUB"
    /\ last.x # 0 /\ last.y # 0
    /\ game.state = "CLIMAX"
    /\ game.current_screen_id = "FINAL_CHAMBER"
    /\ <<game.px, game.py>> = <<72, 160>>


(***************************************************************************)
(* The cat                                                                 *)
(***************************************************************************)

MaxCatTicks == 12

\* free spots next to the fish, far from the cat in the hub, and on the
\* chaser of CATACOMBS_2
FishSpots == {Spot("GARDENS_3", 16, 32)}
FarSpots == {Spot("TOWER_HUB", 48, 152)}
ChaserSpots == {Spot("CATACOMBS_2", 100, 100)}

\* the screens the driver leaves through the east and the west exit
CatScreens == {"TOWER_HUB", "CATACOMBS_1", "CATACOMBS_2"}

\* the driver carries the player between screens only while the cat stays
\* behind; with the cat following it moves the player within the screen
CatPlace ==
    /\ last.op \in {"update", "space", "transition"}
    /\ IF game.cat.following
       THEN Place({p \in CatSpots \cup ChaserSpots : p.s = game.current_screen_id})
       ELSE Place(FishSpots \cup CatSpots \cup FarSpots)

\* the driver moves the player off the east or the west edge
CatExit ==
    /\ last.op \in {"update", "space", "transition"}
    /\ game.current_screen_id \in CatScreens
    /\ PlaceAt({Spot(game.current_screen_id, NATIVE_WIDTH + 1, 88),
                Spot(game.current_screen_id, -PLAYER_SIZE - 1, 88)})

\* the driver presses SPACE where it has put the player
CatSpace == game.state # "INIT" /\ last.op = "place" /\ Space

\* Game.update to start the game, for a player on the chaser, and in the hub
\* while the cat follows
CatTick ==
    /\ \/ game.state = "INIT"
       \/ Spot(game.current_screen_id, game.px, game.py) \in ChaserSpots
       \/ game.cat.following /\ game.current_screen_id = "TOWER_HUB"
    /\ check_screen_transition(game.px, game.py, PLAYER_SIZE, PLAYER_SIZE) = None
    /\ Tick({0}, MaxCatTicks)

SpecCat == Init /\ [][CatTick \/ CatSpace \/ CatPlace \/ CatExit \/ TransitionOut]_vars

\* the screens in whose list the cat is
CatLists(g) == {s \in ScreenID : "cat" \in ListIds(g.entities[s])}

\* a following cat goes on following
CatKeepsFollowing == [][game.cat.following => game'.cat.following]_vars

\* a following cat is in one list, once
CatInOneList ==
    [](game.cat.following
          => /\ Cardinality(CatLists(game)) = 1
             /\ \A s \in CatLists(game) :
                   Cardinality({i \in 1 .. Len(game.entities[s]) :
                                   game.entities[s][i] = "cat"}) = 1)

\* an update that changes the current screen, the whole of it or its
\* transition block, leaves a following cat in the list of the new current
\* screen
CatComesAlong ==
    [][(/\ last'.op \in {"update", "transition"}
        /\ game.cat.following
        /\ game'.current_screen_id # game.current_screen_id)
       => game'.current_screen_id \in CatLists(game')]_vars

\* C35: once the cat is following it follows for ever, it is in exactly one
\* screen's entity list in every state, and at the end of every tick in which
\* the current screen changes it is in the list of the new current screen.
C35_CatFollows == CatKeepsFollowing /\ CatInOneList /\ CatComesAlong


(***************************************************************************)
(* Contact with the boss                                                   *)
(***************************************************************************)

\* after the first hit the driver moves the player onto the boss again,
\* while no hit counts
ContactPlace ==
    /\ game.state = "CLIMAX"
    /\ game.current_screen_id = "FINAL_CHAMBER"
    /\ last.op = "update"
    /\ game.boss.alive /\ game.boss.invulnerable
    /\ game.boss.hits_remaining = 2
    /\ game.boss.invulnerable_timer = INVULNERABLE_TIME
    /\ LET p == Spot("FINAL_CHAMBER", Px(game.boss.x), Px(game.boss.y))
       IN  /\ Standable(game, p.s, p.x, p.y)
           /\ game' = [Fresh(game) EXCEPT !.px = p.x, !.py = p.y]
           /\ last' = Op("place", p.s, p.x, p.y, NoDraws, None)
    /\ UNCHANGED ticks

\* the driver puts the sword down out of the boss's way, before the first
\* hit or after it
ContactSpace ==
    /\ game.state = "CLIMAX"
    /\ game.current_screen_id = "FINAL_CHAMBER"
    /\ game.boss.alive /\ game.boss.hits_remaining \in {2, 3}
    /\ player_has_sword(game)
    /\ last.op = "update"
    /\ Spot(game.current_screen_id, game.px, game.py) \in SafeSpots
    /\ Space

SpecContact ==
    Init /\ [][StoryTick \/ StorySpace \/ StoryPlace \/ StoryPlaceClimax
               \/ ContactPlace \/ ContactSpace]_vars

\* C36: in an update in CLIMAX that finds the boss alive, with the player and
\* the boss where their own updates of this tick leave them, a player without
\* the sword who overlaps the boss dies; a player with the sword dies only of
\* a projectile, and overlapping a boss that is still invulnerable leaves the
\* hit counter as it was; a projectile that overlaps the player kills, sword
\* or none.
C36_BossContact ==
    [][(last'.op = "update" /\ game.state = "CLIMAX" /\ game.boss.alive)
          => LET p == player_update(Fresh(game), last'.x, last'.y)
                 b == void_update(game.boss)
                 sword == player_has_sword(game)
                 touch == is_colliding_with_player(b, p.px, p.py)
                 shot == \E i \in 1 .. Len(game'.boss.projectiles) :
                            projectile_is_colliding_with_player(
                                game'.boss.projectiles[i], p.px, p.py)
                 dies == "DEATH" \in game'.events
             IN  /\ (touch /\ ~sword) => dies
                 /\ (touch /\ sword /\ ~shot) => ~dies
                 /\ (touch /\ sword /\ b.invulnerable)
                       => game'.boss.hits_remaining = game.boss.hits_remaining
                 /\ shot => dies
                 /\ dies => shot \/ (touch /\ ~sword)]_vars

\* a player with the sword has stood on the invulnerable boss through an
\* update and lives
C36_Witness ==
    /\ last.op = "update"
    /\ game.state = "CLIMAX"
    /\ game.current_screen_id = "FINAL_CHAMBER"
    /\ player_has_sword(game)
    /\ game.boss.alive /\ game.boss.invulnerable
    /\ game.boss.hits_remaining < 3
    /\ is_colliding_with_player(game.boss, game.px, game.py)
    /\ "DEATH" \notin game.events


\* C37: in every reachable state in which the GameState is CLIMAX the
\* current screen is FINAL_CHAMBER, after a death in the boss fight too.
C37_ClimaxInChamber ==
    game.state = "CLIMAX" => game.current_screen_id = "FINAL_CHAMBER"


\* C38: in every reachable state, the initial spawn and the respawn after a
\* death included, no corner of the player's box is in a solid tile of the
\* current screen and the box overlaps no active solid interactable of the
\* current screen's list.
C38_NeverEmbedded == Standable(game, game.current_screen_id, game.px, game.py)


\* C39: in every reachable state, WIN implies that all crystals are placed
\* and the boss is defeated, and a Ring of Eternity is in some screen's list
\* only if the boss is defeated.
C39_WinNeedsBoth ==
    /\ game.state = "WIN" => game.all_crystals_placed /\ game.boss_defeated
    /\ RingPlaces(game) # {} => game.boss_defeated

\* the game is won, after the ring lay in the final chamber
C39_Witness ==
    /\ game.state = "WIN"
    /\ game.previous_state = "CLIMAX"
    /\ game.all_crystals_placed
    /\ game.boss_defeated
    /\ ~game.boss.alive
    /\ RingPlaces(game) = {}


(***************************************************************************)
(* The way into the final chamber                                          *)
(***************************************************************************)

\* after the first update, before it takes any crystal, the driver also
\* fetches the silver key, carries it to the silver gate and steps into the
\* gate it has opened
ChamberSpots(g) ==
    IF ~Untouched(g) THEN {}
    ELSE IF g.held_item = "silver_key" THEN GateSpots
    ELSE IF g.held_item # None THEN {}
    ELSE IF g.inter["silver_gate"].is_activated THEN {Spot("TOWER_HUB", 80, 20)}
    ELSE {Spot("CATACOMBS_3", 75, 70)}

ChamberPlace ==
    /\ ticks = 1
    /\ last.op \in {"update", "space", "transition"}
    /\ Place(ChamberSpots(game))

\* Game.update with any keys held for a player the driver has put into the
\* gate the key has opened
ChamberTick ==
    /\ last.op = "place"
    /\ game.current_screen_id = "TOWER_HUB"
    /\ NearGate(game)
    /\ game.inter["silver_gate"].is_activated
    /\ ~game.all_crystals_placed
    /\ \E vx \in Velocities, vy \in Velocities, d \in Draws(game) :
          /\ game' = update(Fresh(game), vx, vy, d)
          /\ last' = Op("update", game.current_screen_id, vx, vy, d, None)
    /\ UNCHANGED ticks

\* before any crystal is taken the driver moves the player off an edge of
\* the current screen
ChamberExit ==
    /\ ticks = 1
    /\ last.op \in {"update", "space", "transition"}
    /\ game.held_item = None
    /\ Untouched(game)
    /\ PlaceAt({p \in ExitSpots : p.s = game.current_screen_id})

SpecChamber ==
    Init /\ [][StoryTick \/ StorySpace \/ StoryPlace \/ StoryPlaceClimax
               \/ ChamberPlace \/ ChamberTick \/ ChamberExit \/ TransitionOut]_vars

\* C40: the current screen is FINAL_CHAMBER only if all crystals are placed;
\* no screen is connected to FINAL_CHAMBER in any direction and no edge
\* transition ends there; and while some crystal is unplaced no update enters
\* it, with the silver gate opened by the key or not.
C40_ChamberNeedsCrystals ==
    /\ [](game.current_screen_id = "FINAL_CHAMBER" => game.all_crystals_placed)
    /\ [](\A s \in ScreenID, d \in Direction : get_connection(s, d) # "FINAL_CHAMBER")
    /\ [][last'.op = "transition" => game'.current_screen_id # "FINAL_CHAMBER"]_vars
    /\ [][(last'.op = "update" /\ ~game.all_crystals_placed)
             => game'.current_screen_id # "FINAL_CHAMBER"]_vars

\* the key has opened the silver gate with crystals still to place, and the
\* player has walked on inside the gate and is still in the hub
C40_Witness ==
    /\ last.op = "update"
    /\ last.x # 0 /\ last.y # 0
    /\ game.current_screen_id = "TOWER_HUB"
    /\ game.state = "EXPLORE"
    /\ NearGate(game)
    /\ <<game.px, game.py>> # <<80, 20>>
    /\ game.inter["silver_gate"].is_activated
    /\ ~InSomeList(game, "silver_key")
    /\ ~game.all_crystals_placed

====
